---- MODULE Spec2Model ----
(***************************************************************************)
(* A model of the chatty companion bot: the vector-store backed memory     *)
(* (memory.py), the message handler of both platform bindings (bot.py,     *)
(* discord_bot.py), the proactive scheduler (scheduler.py) and the language *)
(* model gateway with its tool-calling loop (llm.py, tools/base.py).        *)
(*                                                                         *)
(* The module holds several specifications over one set of variables:      *)
(*   Spec      the running bot: inbound turns, scheduler ticks, the store   *)
(*   SpecMem   the memory store's operations on explicit inputs             *)
(*   SpecTools the tool-calling loop of generate_response                   *)
(*   SpecFacts extract_facts applied to bounded model responses             *)
(*   SpecLastUser get_last_user_message_time on small and large stores     *)
(*   SpecStartup  main() and the construction of the platform bindings     *)
(***************************************************************************)
EXTENDS Integers, Sequences, FiniteSets, TLC

VARIABLES
    platform,       \* which binding this process runs: "telegram" or "discord"
    now,            \* the wall clock, in whole hours
    history,        \* the chat_history collection: a set of points
    facts,          \* the user_facts collection: a set of points
    lastProactive,  \* ProactiveScheduler._last_proactive_message
    hpc,            \* where the message handler is suspended
    turn,           \* number of inbound turns accepted so far
    turnExc,        \* the step of the current or last turn that raised last, or "none"
    spc,            \* where the scheduler job is suspended, or "raised" once an exception left it
    tickResult,     \* what the last tick decided
    lastDelivered,  \* when the transport last delivered a proactive message
    lastHandled,    \* what became of the inbound event last handled in this hour
    userCached,     \* the binding holds what it needs to send unprompted
    memOp,          \* SpecMem: the last memory operation and its inputs
    memResult,      \* SpecMem: what the last memory operation returned
    tpc,            \* SpecTools: state of the tool-calling loop
    iterations,     \* SpecTools: _generate_with_tools' iterations
    transcript,     \* SpecTools: current_messages
    chatCalls,      \* SpecTools: completion calls made by this generate_response
    lastResponse,   \* SpecTools: the last model response
    genResult,      \* SpecTools: what generate_response returned
    genHistory,     \* SpecTools: the history generate_response was called with
    requests,       \* SpecTools: the completion requests of this generate_response
    executions,     \* SpecTools: the tool invocations executed, in order
    factInput,      \* SpecFacts: the backend outcome given to extract_facts
    factOutput,     \* SpecFacts: what extract_facts returned
    env,            \* SpecStartup: the environment variables main() finds
    mainPc,         \* SpecStartup: where main() is
    telegramTask,   \* SpecStartup: the task running run_telegram_bot
    discordTask,    \* SpecStartup: the task running run_discord_bot
    stopEvent,      \* SpecStartup: stop_event is set
    scheduler,      \* SpecStartup: each platform's ProactiveScheduler
    tickJob,        \* SpecStartup: each scheduler's job, the tick
    command,        \* SpecCommands: the command event handled last
    cmdReply,       \* SpecCommands: the text the command handler sends, and its fate
    cmdRead,        \* SpecCommands: the command handler has read the store
    schedulers,     \* SpecBoth: each binding's ProactiveScheduler, its field and its job
    deliveries      \* SpecBoth: the proactive messages the transports delivered

vars == <<platform, now, history, facts, lastProactive, hpc, turn, turnExc,
          spc, tickResult, lastDelivered, lastHandled, userCached, memOp, memResult, tpc, iterations, transcript, chatCalls, lastResponse, genResult,
          genHistory, requests, executions, factInput, factOutput, env, mainPc, telegramTask, discordTask,
          stopEvent, scheduler, tickJob, command, cmdReply, cmdRead,
          schedulers, deliveries>>

botVars == <<platform, now, history, facts, lastProactive, hpc, turn, turnExc,
             spc, tickResult, lastDelivered, lastHandled, userCached>>
memVars == <<memOp, memResult>>
toolVars == <<tpc, iterations, transcript, chatCalls, lastResponse, genResult,
              genHistory, requests, executions>>
factVars == <<factInput, factOutput>>
startVars == <<env, mainPc, telegramTask, discordTask, stopEvent, scheduler, tickJob>>
cmdVars == <<command, cmdReply, cmdRead>>
bothVars == <<schedulers, deliveries>>

(***************************************************************************)
(* Bounds of the model                                                     *)
(***************************************************************************)
MaxStored == 3      \* SpecMem: messages added to the collection
MaxLimit == 2       \* SpecMem: largest limit passed to a query
MaxTick == 3        \* SpecMem: explicit timestamps range over the first instants
FracUnits == 2      \* sub-hour instants per hour (the clock's resolution)
MaxTime == 50       \* Spec: the clock stops after this many hours
MaxFewUsers == 2    \* SpecLastUser: the small numbers of stored user messages
MaxTurns == 1       \* Spec: inbound turns the handler accepts
MaxChatHour == 1    \* Spec: inbound events arrive, and turns are under way, before this hour
MaxNewFacts == 1    \* Spec: facts one extraction returns
MaxFailHour == 26   \* SpecLive, SpecRace: the last hour in which a call of a tick may fail or be slow
MaxKnownFacts == 2  \* SpecCommands: facts the store holds
MaxResponseLen == 5 \* SpecFacts: characters of the model's response

(***************************************************************************)
(* Constants of the program                                                *)
(***************************************************************************)
RELEVANT_HISTORY_LIMIT == 5     \* get_relevant_history(user_message, limit=5)
RECENT_HISTORY_LIMIT == 10      \* get_recent_history(limit=10)
INACTIVITY_THRESHOLD_HOURS == 24
CHECK_INTERVAL_HOURS == 1
MAX_TOOL_ITERATIONS == 5
LAST_USER_SCROLL_LIMIT == 100   \* get_last_user_message_time: scroll(limit=100)

Min(a, b) == IF a < b THEN a ELSE b

(***************************************************************************)
(* Instants and their ISO text                                             *)
(* A datetime is [h, f]: whole hours and a sub-hour fraction (datetime's   *)
(* microsecond field).  isoformat() drops the fractional field when it is  *)
(* zero, and the store keeps and sorts the text, not the datetime.         *)
(***************************************************************************)
Instant(h, f) == [h |-> h, f |-> f]
None == Instant(-1, 0)      \* Optional[datetime] None; no real instant has h < 0

Ticks(t) == t.h * FracUnits + t.f

IsoFormat(t) == IF t.f = 0 THEN <<t.h>> ELSE <<t.h, t.f>>

FromIsoFormat(s) == Instant(s[1], IF Len(s) > 1 THEN s[2] ELSE 0)

\* Python's str "<": the first differing position decides, a proper prefix is less.
StrLess(a, b) ==
    \/ \E i \in 1..Min(Len(a), Len(b)) :
          /\ a[i] < b[i]
          /\ \A j \in 1..(i - 1) : a[j] = b[j]
    \/ /\ Len(a) < Len(b)
       /\ \A j \in 1..Len(a) : a[j] = b[j]

(***************************************************************************)
(* memory.py: the collections and their queries                            *)
(* A point is [id, role, content, timestamp]; timestamp is the ISO text.   *)
(* A uuid4 id is fresh and otherwise opaque: all that can be observed of   *)
(* it is that the new point differs from every stored one, so the id here  *)
(* is the least number that makes the point new (it numbers the points     *)
(* that carry the same payload).  The order in which scroll pages through  *)
(* points is the store's (by id, and ids are random), so a scroll with a   *)
(* limit may return any limit-sized part of the collection.                *)
(***************************************************************************)
Point(id, role, content, t) ==
    [id |-> id, role |-> role, content |-> content, timestamp |-> IsoFormat(t)]

Payload(p) == [role |-> p.role, content |-> p.content, timestamp |-> p.timestamp]

FreshId(coll, role, content, t) ==
    1 + Cardinality({p \in coll : Payload(p) = Payload(Point(0, role, content, t))})

\* add_message once embed and upsert have succeeded: upsert stores the point
\* under its id, in place of a point that has this id already
AddMessageMutant(coll, role, content, t) ==
    {p \in coll : p.id # 1} \cup {Point(1, role, content, t)}
AddMessage(coll, role, content, t) ==
    coll \cup {Point(FreshId(coll, role, content, t), role, content, t)}

\* the parts of coll that lack k of its points
RECURSIVE Without(_, _)
Without(coll, k) ==
    IF k = 0 THEN {coll}
    ELSE UNION {Without(coll \ {p}, k - 1) : p \in coll}

\* client.scroll(limit=n): the possible pages, each of min(n, size) points
Scroll(coll, n) == Without(coll, Cardinality(coll) - Min(n, Cardinality(coll)))

\* client.search(limit=n): the n nearest points, whichever the embedding ranks first
Search(coll, n) ==
    {S \in SUBSET coll : Cardinality(S) = Min(n, Cardinality(coll))}

Reverse(s) == [i \in 1..Len(s) |-> s[Len(s) + 1 - i]]

Take(s, n) == SubSeq(s, 1, Min(n, Len(s)))

\* list.sort(key=timestamp, reverse=True) of the points S listed in any order:
\* equal keys keep the order the store returned them in, which is any order.
RECURSIVE SortedDescending(_)
SortedDescending(S) ==
    IF S = {} THEN {<<>>}
    ELSE LET latest == {p \in S : \A q \in S : ~StrLess(p.timestamp, q.timestamp)}
         IN UNION {{<<p>> \o rest : rest \in SortedDescending(S \ {p})} : p \in latest}

\* list.sort(key=timestamp)
RECURSIVE SortedAscending(_)
SortedAscending(S) ==
    IF S = {} THEN {<<>>}
    ELSE LET earliest == {p \in S : \A q \in S : ~StrLess(q.timestamp, p.timestamp)}
         IN UNION {{<<p>> \o rest : rest \in SortedAscending(S \ {p})} : p \in earliest}

MapPayload(s) == [i \in 1..Len(s) |-> Payload(s[i])]

\* The window get_recent_history scrolls: limit * 2 points
RecentScrollLimit(limit) == limit * 2

\* get_recent_history(limit): the possible return values
GetRecentHistory(coll, limit) ==
    {MapPayload(Reverse(Take(s, limit))) :
        s \in UNION {SortedDescending(S) : S \in Scroll(coll, RecentScrollLimit(limit))}}

WithScore(p) ==
    [role |-> p.role, content |-> p.content, timestamp |-> p.timestamp,
     score |-> "score"]

\* get_relevant_history(query, limit): the possible return values
GetRelevantHistory(coll, limit) ==
    {[i \in 1..Len(s) |-> WithScore(s[i])] :
        s \in UNION {SortedAscending(S) : S \in Search(coll, limit)}}

\* the latest of a non-empty set of datetimes: max(timestamps)
MaxInstant(T) == CHOOSE t \in T : \A u \in T : Ticks(u) <= Ticks(t)

\* get_last_user_message_time(): the possible return values
GetLastUserMessageTimeMutant(coll) ==
    {IF S = {} THEN None ELSE MaxInstant({FromIsoFormat(p.timestamp) : p \in S}) :
        S \in Scroll(coll, LAST_USER_SCROLL_LIMIT)}
GetLastUserMessageTime(coll) ==
    {IF S = {} THEN None ELSE MaxInstant({FromIsoFormat(p.timestamp) : p \in S}) :
        S \in Scroll({p \in coll : p.role = "user"}, LAST_USER_SCROLL_LIMIT)}

\* A fact point; created_at is the ISO text
FactPoint(id, fact, t) ==
    [id |-> id, fact |-> fact, source_message_id |-> "None", created_at |-> IsoFormat(t)]

\* add_fact once embed and upsert have succeeded
AddFact(coll, fact, t) ==
    coll \cup {FactPoint(1 + Cardinality({p \in coll : p.fact = fact}), fact, t)}

(***************************************************************************)
(* bot.py / discord_bot.py: the history merge of a turn                    *)
(***************************************************************************)
\* msg_key = f"{msg['role']}:{msg['timestamp']}"
MsgKey(m) == <<m.role, ":">> \o m.timestamp

\* One pass of "if msg_key not in history_ids: add it, append msg"
SkipSeenMutant(acc, m) == [ids |-> acc.ids \cup {MsgKey(m)}, list |-> Append(acc.list, m)]
SkipSeen(acc, m) ==
    IF MsgKey(m) \notin acc.ids
    THEN [ids |-> acc.ids \cup {MsgKey(m)}, list |-> Append(acc.list, m)]
    ELSE acc

RECURSIVE AppendUnseen(_, _)
AppendUnseen(acc, msgs) ==
    IF msgs = <<>> THEN acc
    ELSE AppendUnseen(SkipSeen(acc, Head(msgs)), Tail(msgs))

\* Insert m behind every element whose key is not greater: a stable sort's step
RECURSIVE InsertByTimestamp(_, _)
InsertByTimestamp(sorted, m) ==
    IF sorted = <<>> THEN <<m>>
    ELSE IF StrLess(m.timestamp, Head(sorted).timestamp)
         THEN <<m>> \o sorted
         ELSE <<Head(sorted)>> \o InsertByTimestamp(Tail(sorted), m)

\* combined_history.sort(key=lambda m: m["timestamp"])
RECURSIVE SortByTimestamp(_)
SortByTimestamp(s) ==
    IF s = <<>> THEN <<>>
    ELSE InsertByTimestamp(SortByTimestamp(SubSeq(s, 1, Len(s) - 1)), s[Len(s)])

\* The combined history handed to generate_response
CombineHistoryMutant(recent, relevant) ==
    LET afterRelevant == AppendUnseen([ids |-> {}, list |-> <<>>], relevant)
        afterRecent == AppendUnseen(afterRelevant, recent)
    IN SortByTimestamp(afterRecent.list)
CombineHistory(recent, relevant) ==
    LET afterRecent == AppendUnseen([ids |-> {}, list |-> <<>>], recent)
        afterRelevant == AppendUnseen(afterRecent, relevant)
    IN SortByTimestamp(afterRelevant.list)

(***************************************************************************)
(* Values the variables of an idle subsystem hold                          *)
(***************************************************************************)
NoMemOp == [op |-> "none", limit |-> 0, relevantLimit |-> 0]
NoMemResult == [recent |-> <<>>, relevant |-> <<>>, value |-> <<>>]

BotIdle ==
    /\ platform = "telegram"
    /\ now = 0
    /\ history = {}
    /\ facts = {}
    /\ lastProactive = None
    /\ hpc = "idle"
    /\ turn = 0
    /\ turnExc = "none"
    /\ spc = "idle"
    /\ tickResult = "none"
    /\ lastDelivered = None
    /\ lastHandled = "none"
    /\ userCached = TRUE

MemIdle ==
    /\ memOp = NoMemOp
    /\ memResult = NoMemResult

ToolsIdle ==
    /\ tpc = "idle"
    /\ iterations = 0
    /\ transcript = <<>>
    /\ chatCalls = 0
    /\ lastResponse = [content |-> "", tool_calls |-> <<>>]
    /\ genResult = [kind |-> "none", text |-> ""]
    /\ genHistory = <<>>
    /\ requests = <<>>
    /\ executions = <<>>

NoFactOutput == [done |-> FALSE, raised |-> FALSE, facts |-> <<>>]

FactsIdle ==
    /\ factInput = [kind |-> "none", content |-> <<>>]
    /\ factOutput = NoFactOutput

NoCommand == [name |-> "none", sender |-> "nobody"]
NoReply == [text |-> "none", state |-> "none"]

CmdIdle ==
    /\ command = NoCommand
    /\ cmdReply = NoReply
    /\ cmdRead = FALSE

\* ProactiveScheduler.__init__: "self._last_proactive_message = None"; the job
\* has not run yet
NewScheduler == [last |-> None, pc |-> "idle", tickedAt |-> 0]

BothIdle ==
    /\ schedulers = [p \in {"telegram", "discord"} |-> NewScheduler]
    /\ deliveries = {}

\* no stop signal, no ProactiveScheduler constructed, no tick on its way
NoShutdown ==
    /\ stopEvent = FALSE
    /\ scheduler = [p \in {"telegram", "discord"} |-> "none"]
    /\ tickJob = [p \in {"telegram", "discord"} |-> "none"]

\* startup is not part of the other specifications: the environment is in
\* order and main() is not looked at
StartIdle ==
    /\ env = [telegramToken |-> "valid", telegramUserId |-> "integer",
              discordToken |-> "valid", discordUserId |-> "integer", shared |-> "ok"]
    /\ mainPc = "start"
    /\ telegramTask = "none"
    /\ discordTask = "none"
    /\ NoShutdown

(***************************************************************************)
(* llm.py: the message list generate_response builds                       *)
(***************************************************************************)
SystemPrompt == "system_prompt"
TriggeringMessage == "user_message"

Message(role, content) == [role |-> role, content |-> content, tool_calls |-> <<>>]

\* an entry of the history handed to generate_response
HistoryEntry(role, content, timestamp) ==
    [role |-> role, content |-> content, timestamp |-> timestamp]

\* full_messages: the system prompt, the role and content of each history
\* entry, the user message
FullMessagesMutant(system, hist, user) ==
    <<Message("system", system), Message("user", user)>>
        \o [i \in 1..Len(hist) |-> Message(hist[i].role, hist[i].content)]
FullMessages(system, hist, user) ==
    <<Message("system", system)>>
        \o [i \in 1..Len(hist) |-> Message(hist[i].role, hist[i].content)]
        \o <<Message("user", user)>>

(***************************************************************************)
(* bot.py / discord_bot.py: the inbound message handler                    *)
(* The handler is a coroutine: it gives up control only at its awaits (the *)
(* typing signal, the reply, the apology).  Between two awaits its calls   *)
(* to the store and the model are synchronous and run as one step.         *)
(***************************************************************************)
AllowedUserId == "allowed_user"

\* who an inbound event is from: "nobody" is an update without effective_user
\* (telegram), "bot_itself" a message of the bot's own account (discord)
Senders(p) ==
    IF p = "telegram" THEN {AllowedUserId, "stranger", "nobody"}
    ELSE {AllowedUserId, "stranger", "bot_itself"}

\* an inbound event: its sender, whether it came in a direct-message channel and
\* whether it carries text
InboundEvents(p) == [sender : Senders(p), dm : BOOLEAN, text : BOOLEAN]

\* _is_allowed_user(user_id)
IsAllowedUserMutant(id) == id # "bot_itself"
IsAllowedUser(id) == id = AllowedUserId

\* ChattyBot.handle_message's guards
TelegramVerdict(ev) ==
    IF ev.sender = "nobody" \/ ~ev.text THEN "dropped"
    ELSE IF ~IsAllowedUser(ev.sender) THEN "unauthorized"
    ELSE "accepted"

\* DiscordBot on_message's guards
DiscordVerdict(ev) ==
    IF ev.sender = "bot_itself" THEN "dropped"
    ELSE IF ~ev.dm THEN "dropped"
    ELSE IF ~IsAllowedUser(ev.sender) THEN "unauthorized"
    ELSE IF ~ev.text THEN "dropped"
    ELSE "accepted"

Verdict(p, ev) == IF p = "telegram" THEN TelegramVerdict(ev) ELSE DiscordVerdict(ev)

UtcNow(clock) == Instant(clock, 0)

\* the calls of the try block that come before anything is stored
PreStoreSteps ==
    {"get_relevant_history", "get_recent_history", "get_relevant_facts",
     "generate_response"}

UserMessage(n) == <<"user_message", n>>
Response(n) == <<"response", n>>

\* An inbound event reaches the handler: it returns at once, or starts the turn
\* and awaits the typing signal.
HandleMessage(ev) ==
    /\ hpc = "idle"
    /\ Verdict(platform, ev) = "accepted" => turn < MaxTurns
    /\ IF Verdict(platform, ev) = "accepted"
       THEN /\ turn' = turn + 1
            /\ hpc' = "typing"
            /\ lastHandled' = "in_progress"
       ELSE /\ lastHandled' = Verdict(platform, ev)
            /\ UNCHANGED <<turn, hpc>>
    /\ turnExc' = "none"
    /\ UNCHANGED <<platform, now, history, facts, lastProactive, spc,
                   tickResult, lastDelivered, userCached>>
    /\ UNCHANGED <<memVars, toolVars, factVars, startVars, cmdVars, bothVars>>

\* an inbound event of the chat hours
OnMessage(ev) == now < MaxChatHour /\ HandleMessage(ev)

\* _extract_and_store_facts: get_all_facts may raise; extract_facts returns n
\* facts; add_fact stores them one by one and may raise at any of them.  The
\* function catches what is raised.  [facts, raised] for each outcome.
RECURSIVE StoreFacts(_, _, _, _)
StoreFacts(coll, n, k, t) ==
    IF k = 0 THEN coll
    ELSE AddFact(StoreFacts(coll, n, k - 1, t), [turn |-> n, k |-> k], t)

ExtractAndStoreFacts(coll, n, t) ==
    {[facts |-> StoreFacts(coll, n, IF readFailed THEN 0 ELSE Min(k, found), t),
      raised |-> readFailed \/ k < found] :
        readFailed \in BOOLEAN, found \in 0..MaxNewFacts, k \in 0..MaxNewFacts}

\* _extract_and_store_facts ends in "except Exception as e: logger.error(...)":
\* what is raised in it does not reach handle_message
FactErrorReachesHandlerMutant(raised) == raised
FactErrorReachesHandler(raised) == FALSE

\* add_message("user", user_message) of the try block: it comes after
\* generate_response, so it runs only once that has returned
StoreUserMessageMutant(coll, n, t, generated) == AddMessage(coll, "user", UserMessage(n), t)
StoreUserMessage(coll, n, t, generated) ==
    IF generated THEN AddMessage(coll, "user", UserMessage(n), t) ELSE coll

\* add_message("assistant", response) of the try block
StoreResponseMutant(coll, n, t) == coll
StoreResponse(coll, n, t) == AddMessage(coll, "assistant", Response(n), t)

\* the history once the first k add_message calls of the try block returned:
\* add_message("user", user_message), then add_message("assistant", response)
PersistTurnMutant(coll, n, t, k) ==
    IF k = 0 THEN coll
    ELSE IF k = 1 THEN AddMessage(coll, "assistant", Response(n), t)
    ELSE AddMessage(StoreUserMessage(coll, n, t, TRUE), "assistant", Response(n), t)
PersistTurn(coll, n, t, k) ==
    IF k = 0 THEN coll
    ELSE IF k = 1 THEN StoreUserMessage(coll, n, t, TRUE)
    ELSE StoreResponse(StoreUserMessage(coll, n, t, TRUE), n, t)

\* the store the context of a turn is read from: the store as the turn found
\* it, the turn's own message is added only after generate_response
ContextStoreMutant(coll, n, t) == AddMessage(coll, "user", UserMessage(n), t)
ContextStore(coll, n, t) == coll

\* combined_history: what the two history queries return, merged
AssembledHistories(coll) ==
    {CombineHistory(recent, relevant) :
        recent \in GetRecentHistory(coll, RECENT_HISTORY_LIMIT),
        relevant \in GetRelevantHistory(coll, RELEVANT_HISTORY_LIMIT)}

\* system_prompt: the character's prompt and the section of relevant facts
TurnSystemPrompt == <<SystemPrompt, "relevant_facts">>

\* the context is assembled and generate_response builds its message list
PromptBuilt ==
    \E hist \in AssembledHistories(ContextStore(history, turn, UtcNow(now))) :
        /\ genHistory' = hist
        /\ transcript' = FullMessages(TurnSystemPrompt, hist, UserMessage(turn))

\* The typing signal returns; the handler runs up to its next await.
TypingDone ==
    /\ hpc = "typing"
    /\ \/ \* the typing signal raised: it is awaited outside the try block, so
          \* the exception leaves the handler
          /\ hpc' = "idle"
          /\ lastHandled' = "raised"
          /\ UNCHANGED <<history, facts, turnExc, genHistory, transcript>>
       \/ \* retrieval raised: except branch, nothing stored
          /\ \E step \in PreStoreSteps \ {"generate_response"} : turnExc' = step
          /\ hpc' = "apologizing"
          /\ history' = StoreUserMessage(history, turn, UtcNow(now), FALSE)
          /\ UNCHANGED <<facts, lastHandled, genHistory, transcript>>
       \/ \* generation raised: except branch, nothing stored
          /\ PromptBuilt
          /\ turnExc' = "generate_response"
          /\ hpc' = "apologizing"
          /\ history' = StoreUserMessage(history, turn, UtcNow(now), FALSE)
          /\ UNCHANGED <<facts, lastHandled>>
       \/ \* add_message("user", ...) raised
          /\ PromptBuilt
          /\ turnExc' = "add_user_message"
          /\ hpc' = "apologizing"
          /\ history' = PersistTurn(history, turn, UtcNow(now), 0)
          /\ UNCHANGED <<facts, lastHandled>>
       \/ \* add_message("assistant", ...) raised
          /\ PromptBuilt
          /\ turnExc' = "add_assistant_message"
          /\ hpc' = "apologizing"
          /\ history' = PersistTurn(history, turn, UtcNow(now), 1)
          /\ UNCHANGED <<facts, lastHandled>>
       \/ \* both stored; facts extracted, whatever that raises is swallowed;
          \* the reply is awaited
          /\ PromptBuilt
          /\ history' = PersistTurn(history, turn, UtcNow(now), 2)
          /\ \E o \in ExtractAndStoreFacts(facts, turn, UtcNow(now)) :
                /\ facts' = o.facts
                /\ turnExc' = IF o.raised THEN "extract_and_store_facts" ELSE "none"
                /\ hpc' = IF FactErrorReachesHandler(o.raised) THEN "apologizing"
                          ELSE "replying"
          /\ UNCHANGED lastHandled
    /\ UNCHANGED <<platform, now, lastProactive, turn, spc, tickResult, lastDelivered,
                   userCached>>
    /\ UNCHANGED <<tpc, iterations, chatCalls, lastResponse, genResult, requests,
                   executions>>
    /\ UNCHANGED <<memVars, factVars, startVars, cmdVars, bothVars>>

\* what the handler writes once "await update.message.reply_text(response)"
\* has returned: nothing, both add_message calls come before the await
StoreAfterReplyMutant(coll, n, t) == AddMessage(coll, "assistant", Response(n), t)
StoreAfterReply(coll, n, t) == coll

\* reply_text(response) / message.reply(response) returns or raises
ReplyDone ==
    /\ hpc = "replying"
    /\ \/ /\ hpc' = "idle"
          /\ lastHandled' = "replied"
          /\ UNCHANGED turnExc
       \/ \* the reply raised inside the try block: except branch
          /\ hpc' = "apologizing"
          /\ turnExc' = "reply"
          /\ UNCHANGED lastHandled
    /\ history' = StoreAfterReply(history, turn, UtcNow(now))
    /\ UNCHANGED <<platform, now, facts, lastProactive, turn, spc,
                   tickResult, lastDelivered, userCached>>
    /\ UNCHANGED <<memVars, toolVars, factVars, startVars, cmdVars, bothVars>>

\* the apology of the except branch returns, or raises and leaves the handler
ApologyDone ==
    /\ hpc = "apologizing"
    /\ \/ lastHandled' = "apologized"
       \/ lastHandled' = "raised"
    /\ hpc' = "idle"
    /\ turnExc' = "none"
    /\ UNCHANGED <<platform, now, history, facts, lastProactive, turn, spc,
                   tickResult, lastDelivered, userCached>>
    /\ UNCHANGED <<memVars, toolVars, factVars, startVars, cmdVars, bothVars>>

(***************************************************************************)
(* scheduler.py: the proactive scheduler                                   *)
(* The interval trigger fires the job every CHECK_INTERVAL_HOURS; the job  *)
(* gives up control at one await, the outbound send.                       *)
(***************************************************************************)
Threshold == INACTIVITY_THRESHOLD_HOURS * FracUnits

\* "if self._last_proactive_message: ... if time_since_proactive < threshold"
SentRecentlyMutant(nowI, last) == FALSE
SentRecently(nowI, last) ==
    /\ last # None
    /\ Ticks(nowI) - Ticks(last) < Threshold

\* "if time_since_last < threshold"
UserActiveRecentlyMutant(nowI, lastUser) == Ticks(nowI) - Ticks(lastUser) > Threshold
UserActiveRecently(nowI, lastUser) == Ticks(nowI) - Ticks(lastUser) < Threshold

\* _check_and_send_proactive's decision, given what the store returned
CheckInactivityMutant(lastUser, nowI, last) ==
    IF lastUser = None THEN "skip_no_history"
    ELSE IF UserActiveRecently(nowI, lastUser) THEN "skip_active"
    ELSE IF last # None /\ Ticks(nowI) - Ticks(last) <= Threshold THEN "skip_recent"
    ELSE "send"
CheckInactivity(lastUser, nowI, last) ==
    IF lastUser = None THEN "skip_no_history"
    ELSE IF UserActiveRecently(nowI, lastUser) THEN "skip_active"
    ELSE IF SentRecently(nowI, last) THEN "skip_recent"
    ELSE "send"

ProactiveMessage == <<"proactive", 0>>

\* "except Exception as e: logger.error(...)" closes _check_and_send_proactive
\* and _send_proactive_message, and send_proactive_message returns False for
\* what its send raises: no step of a tick lets its exception leave the job
CaughtInTickMutant(step) == step # "get_last_user_message_time"
CaughtInTick(step) == TRUE

\* where the job is after a step of it raised
AfterFailure(step) == IF CaughtInTick(step) THEN "idle" ELSE "raised"

\* "success = await self.bot.send_proactive_message(message)
\*  if success: self._last_proactive_message = datetime.utcnow()"
NoteSendTimeMutant(success, nowI, last) == nowI
NoteSendTime(success, nowI, last) == IF success THEN nowI ELSE last

\* The clock reaches the next interval and the job runs up to its await.
Tick ==
    /\ spc # "sending"
    /\ now < MaxTime
    /\ hpc # "idle" => now < MaxChatHour
    /\ now' = now + CHECK_INTERVAL_HOURS
    /\ \/ \* get_last_user_message_time raised: caught, logged
          /\ tickResult' = "read_failed"
          /\ spc' = AfterFailure("get_last_user_message_time")
          /\ UNCHANGED userCached
       \/ \* the decision is to skip
          /\ \E lastUser \in GetLastUserMessageTime(history) :
                /\ CheckInactivity(lastUser, UtcNow(now'), lastProactive) # "send"
                /\ tickResult' = CheckInactivity(lastUser, UtcNow(now'), lastProactive)
          /\ spc' = "idle"
          /\ UNCHANGED userCached
       \/ \* _send_proactive_message: reading the context or generating raised
          /\ \E lastUser \in GetLastUserMessageTime(history) :
                CheckInactivity(lastUser, UtcNow(now'), lastProactive) = "send"
          /\ tickResult' = "send"
          /\ spc' = AfterFailure("generate_proactive_message")
          /\ UNCHANGED userCached
       \/ \* discord: the user is not cached and fetch_user raised
          /\ \E lastUser \in GetLastUserMessageTime(history) :
                CheckInactivity(lastUser, UtcNow(now'), lastProactive) = "send"
          /\ ~userCached
          /\ tickResult' = "send"
          /\ spc' = AfterFailure("fetch_user")
          /\ UNCHANGED userCached
       \/ \* the message is generated and the send is awaited
          /\ \E lastUser \in GetLastUserMessageTime(history) :
                CheckInactivity(lastUser, UtcNow(now'), lastProactive) = "send"
          /\ userCached' = TRUE
          /\ tickResult' = "send"
          /\ spc' = "sending"
    \* the record of the last inbound event is kept for the hour it came in
    /\ lastHandled' = IF hpc = "idle" THEN "none" ELSE lastHandled
    /\ turnExc' = IF hpc = "idle" THEN "none" ELSE turnExc
    /\ UNCHANGED <<platform, history, facts, lastProactive, hpc, turn, lastDelivered>>
    /\ UNCHANGED <<memVars, toolVars, factVars, startVars, cmdVars, bothVars>>

\* send_proactive_message after its await, then _send_proactive_message's end
SendDone ==
    /\ spc = "sending"
    /\ \/ \* the send raised: return False
          /\ lastProactive' = NoteSendTime(FALSE, UtcNow(now), lastProactive)
          /\ spc' = AfterFailure("send_message")
          /\ UNCHANGED <<history, lastDelivered>>
       \/ \* delivered, but add_message raised: the same except, return False
          /\ lastDelivered' = UtcNow(now)
          /\ lastProactive' = NoteSendTime(FALSE, UtcNow(now), lastProactive)
          /\ spc' = AfterFailure("add_message")
          /\ UNCHANGED history
       \/ \* delivered and stored: return True, the scheduler notes the time
          /\ lastDelivered' = UtcNow(now)
          /\ history' = AddMessage(history, "assistant", ProactiveMessage, UtcNow(now))
          /\ lastProactive' = NoteSendTime(TRUE, UtcNow(now), lastProactive)
          /\ spc' = "idle"
    /\ UNCHANGED <<platform, now, facts, hpc, turn, turnExc, tickResult, lastHandled,
                   userCached>>
    /\ UNCHANGED <<memVars, toolVars, factVars, startVars, cmdVars, bothVars>>

(***************************************************************************)
(* Spec: the running bot                                                   *)
(***************************************************************************)
Init ==
    /\ platform \in {"telegram", "discord"}
    /\ now = 0
    /\ history = {}
    /\ facts = {}
    /\ lastProactive = None
    /\ hpc = "idle"
    /\ turn = 0
    /\ turnExc = "none"
    /\ spc = "idle"
    /\ tickResult = "none"
    /\ lastDelivered = None
    /\ lastHandled = "none"
    /\ userCached = (platform = "telegram")     \* discord: self._allowed_user = None
    /\ MemIdle /\ ToolsIdle /\ FactsIdle /\ StartIdle /\ CmdIdle /\ BothIdle

Next ==
    \/ \E ev \in InboundEvents(platform) : OnMessage(ev)
    \/ TypingDone
    \/ ReplyDone
    \/ ApologyDone
    \/ Tick
    \/ SendDone

Spec == Init /\ [][Next]_vars

(***************************************************************************)
(* Claims about the scheduler and the message handler (Spec)               *)
(***************************************************************************)
\* the instants of the stored messages of one kind
UserTimes == {FromIsoFormat(p.timestamp) : p \in {q \in history : q.role = "user"}}

ProactiveTimes ==
    {FromIsoFormat(p.timestamp) : p \in {q \in history : q.content = ProactiveMessage}}

LatestUser == IF UserTimes = {} THEN None ELSE MaxInstant(UserTimes)

\* C1: any two proactive messages delivered to the user are at least the 24-hour
\* threshold apart, whatever ticks, user messages and send or store failures occur.
C1_DeliveriesThresholdApart ==
    [][(lastDelivered # None /\ lastDelivered' # lastDelivered) =>
           Ticks(lastDelivered') - Ticks(lastDelivered) >= Threshold]_vars

\* C2: while the user stays inactive the scheduler sends at most one proactive
\* message: the history never holds two proactive messages newer than the latest
\* user message.
C2_OnePingPerInactivityPeriod ==
    Cardinality({t \in ProactiveTimes : Ticks(t) > Ticks(LatestUser)}) <= 1

C5_StrangerIgnored ==
    [][\A ev \in InboundEvents(platform) :
           (ev.sender # AllowedUserId /\ OnMessage(ev)) =>
               /\ hpc' = "idle"
               /\ UNCHANGED <<history, facts, turn>>]_vars

\* C5 witness: the handler has turned away a text message of a stranger and is
\* idle with an untouched store.
C5_StrangerTurnedAway ==
    /\ lastHandled = "unauthorized"
    /\ hpc = "idle"
    /\ history = {}
    /\ facts = {}

\* the steps 2 to 5 of the handler that can raise once the typing signal is through
CaughtSteps ==
    PreStoreSteps \cup {"add_user_message", "add_assistant_message",
                        "extract_and_store_facts"}

\* C6: when the typing signal, context assembly, generation, persistence or fact
\* extraction of a turn raises, the turn ends with the apology delivered and the
\* exception does not leave the handler.
C6_RaisedTurnEndsInApology ==
    [][(hpc # "idle" /\ hpc' = "idle" /\ (hpc = "typing" \/ turnExc \in CaughtSteps)) =>
           lastHandled' = "apologized"]_vars

\* the messages and facts the turn in progress has stored
TurnMessages == {p \in history : p.content \in {UserMessage(turn), Response(turn)}}

TurnFacts == {p \in facts : p.fact.turn = turn}

\* C7: a turn whose generation, or a step before it, fails adds neither its user
\* message nor an assistant message to the history, and adds no fact: not in the
\* step that fails and not in the apology that follows.
C7_FailedGenerationStoresNothing ==
    [][(\/ hpc = "typing" /\ (hpc' = "idle" \/ turnExc' \in PreStoreSteps)
        \/ hpc = "apologizing" /\ turnExc \in PreStoreSteps) =>
           UNCHANGED <<history, facts>>]_vars

\* C7 witness: generation has raised, the apology is on its way and the turn has
\* left nothing in the store.
C7_GenerationFailedNothingStored ==
    /\ hpc = "apologizing"
    /\ turnExc = "generate_response"
    /\ TurnMessages = {}
    /\ TurnFacts = {}

\* the last tick ended by a step of it raising: the read of the last user
\* message time, or a step after the decision to send
FailedTick ==
    \/ tickResult = "read_failed"
    \/ tickResult = "send" /\ spc # "sending" /\ lastProactive # UtcNow(now)

\* C12: whichever step of a tick raises, the exception is caught inside the
\* tick: the job ends normally, and the tick of the next interval can run.
C12_FailedTickLeavesSchedulerRunning ==
    FailedTick =>
        /\ spc = "idle"
        /\ (now < MaxTime /\ (hpc = "idle" \/ now < MaxChatHour)) => ENABLED Tick

\* C12 witness: the tick of the hour before delivered its message but failed to
\* persist it, and the tick of this hour ran and is sending.
C12_TickAfterFailedTick ==
    /\ lastDelivered # None
    /\ lastProactive = None
    /\ lastDelivered = UtcNow(now - CHECK_INTERVAL_HOURS)
    /\ tickResult = "send"
    /\ spc = "sending"

\* C13: lastProactive is written only when a send is confirmed, that is when
\* the awaited send delivered the message and the message was stored; it is
\* then the time of that send.  Every other step leaves it unchanged.
C13_LastProactiveOnlyAfterConfirmedSend ==
    [][lastProactive' # lastProactive =>
          /\ spc = "sending"
          /\ spc' = "idle"
          /\ lastDelivered' = UtcNow(now)
          /\ lastProactive' = UtcNow(now)
          /\ Cardinality(history') = Cardinality(history) + 1
          /\ \E p \in history' \ history :
                /\ p.content = ProactiveMessage
                /\ p.timestamp = IsoFormat(UtcNow(now))]_vars

\* C13 witness: a send was confirmed and lastProactive is its time.
C13_ConfirmedSendNoted ==
    /\ lastProactive # None
    /\ lastProactive = lastDelivered
    /\ lastProactive = UtcNow(now)
    /\ \E p \in history : p.content = ProactiveMessage
                             /\ p.timestamp = IsoFormat(lastProactive)

\* C14: when reading the facts, extracting them or storing one of them raises
\* in a turn whose generation and persistence succeeded, the handler goes on
\* to send the generated response: both messages are stored, the reply is
\* awaited or delivered, and no apology is sent for it.
C14_FactFailureStillReplies ==
    turnExc = "extract_and_store_facts" =>
        /\ UserMessage(turn) \in {p.content : p \in history}
        /\ Response(turn) \in {p.content : p \in history}
        /\ \/ hpc = "replying"
           \/ hpc = "idle" /\ lastHandled = "replied"

\* C14 witness: fact extraction raised and the response was delivered.
C14_RepliedAfterFactFailure ==
    /\ turnExc = "extract_and_store_facts"
    /\ hpc = "idle"
    /\ lastHandled = "replied"

\* the add_message calls that returned in a step: the user message and the
\* response of a turn, the user message alone when storing the response
\* raised, and the proactive message of a confirmed send
AddMessageCalls ==
    IF hpc = "typing" /\ hpc' = "replying" THEN 2
    ELSE IF hpc = "typing" /\ turnExc' = "add_assistant_message" THEN 1
    ELSE IF spc = "sending" /\ lastDelivered' = UtcNow(now) /\ lastProactive' = UtcNow(now)
         THEN 1
    ELSE 0

\* C19: no step of the handler or the scheduler removes or changes a stored
\* message; each add_message call that returns adds exactly one point, which
\* differs from every stored one, and a step without such a call leaves the
\* collection as it is.
C19_MessagesAppendOnly ==
    [][/\ history \subseteq history'
       /\ Cardinality(history') = Cardinality(history) + AddMessageCalls]_vars

\* C19 witness: the user message and the response of a turn are still stored,
\* unchanged, after a proactive message was added later.
C19_OldMessagesKeptAfterLaterAdd ==
    /\ Point(1, "user", UserMessage(1), UtcNow(0)) \in history
    /\ Point(1, "assistant", Response(1), UtcNow(0)) \in history
    /\ \E p \in history : p.content = ProactiveMessage
    /\ Cardinality(history) = 3

\* C24: whenever a proactive message was delivered to the user, at the end of
\* that tick the store holds it as an assistant message of that time and
\* lastProactive is that time.
C24_DeliveredMessagePersistedAndNoted ==
    (lastDelivered # None /\ spc # "sending") =>
        /\ \E p \in history :
              /\ p.role = "assistant"
              /\ p.content = ProactiveMessage
              /\ p.timestamp = IsoFormat(lastDelivered)
        /\ lastProactive = lastDelivered

\* the contents of the stored messages
StoredContents == {p.content : p \in history}

\* C25: in a turn the user message is persisted only once generation has
\* returned, the response only once the user message is persisted, and the
\* response is sent only once both are persisted.
C25_HandlerStepOrder ==
    /\ UserMessage(turn) \in StoredContents => turnExc \notin PreStoreSteps
    /\ \A n \in 1..turn :
          Response(n) \in StoredContents => UserMessage(n) \in StoredContents
    /\ (hpc = "replying" \/ lastHandled = "replied") =>
          /\ UserMessage(turn) \in StoredContents
          /\ Response(turn) \in StoredContents

\* C25 witness: the response of a successful turn was delivered, and both
\* messages of the turn are stored.
C25_RepliedWithBothStored ==
    /\ hpc = "idle"
    /\ lastHandled = "replied"
    /\ turnExc = "none"
    /\ {UserMessage(turn), Response(turn)} \subseteq StoredContents

\* C26: the response is sent without waiting for fact extraction: when the
\* reply is handed to the transport, fact extraction has neither stored a fact
\* of the turn nor failed yet.
C26_ReplyNotBehindFactExtraction ==
    hpc = "replying" => (TurnFacts = {} /\ turnExc # "extract_and_store_facts")

(***************************************************************************)
(* SpecMem: the memory store driven with explicit inputs                   *)
(***************************************************************************)
Roles == {"user", "assistant"}

\* the timestamps add_message is given
MemInstants == {Instant(k \div FracUnits, k % FracUnits) : k \in 0..MaxTick}

\* where a call to add_message or add_fact may raise: in self.embed, in
\* client.upsert, or nowhere
WriteFailures == {"none", "embed", "upsert"}

\* add_message(role, content, timestamp): "embedding = self.embed(content)",
\* then the upsert; what either raises leaves the function, and the upsert is
\* not reached when embed raised
AddMessageCallMutant(coll, role, content, t, failure) ==
    [coll |-> IF failure = "upsert" THEN coll ELSE AddMessage(coll, role, content, t),
     raised |-> failure # "none"]
AddMessageCall(coll, role, content, t, failure) ==
    [coll |-> IF failure = "none" THEN AddMessage(coll, role, content, t) ELSE coll,
     raised |-> failure # "none"]

\* add_fact(fact): "embedding = self.embed(fact)", then the upsert
AddFactCall(coll, fact, t, failure) ==
    [coll |-> IF failure = "none" THEN AddFact(coll, fact, t) ELSE coll,
     raised |-> failure # "none"]

\* what the caller of add_message or add_fact gets: the exception, or an id
WriteResult(outcome) ==
    [NoMemResult EXCEPT !.value = IF outcome.raised THEN <<"raised">> ELSE <<"id">>]

\* add_message(role, content, timestamp)
MemAddMessage ==
    /\ Cardinality(history) < MaxStored
    /\ \E role \in Roles, t \in MemInstants, failure \in WriteFailures :
          LET outcome == AddMessageCall(history, role, <<"text", 0>>, t, failure)
          IN /\ history' = outcome.coll
             /\ memResult' = WriteResult(outcome)
             /\ memOp' = [op |-> "add_message", failure |-> failure]
    /\ UNCHANGED <<platform, now, facts, lastProactive, hpc, turn, turnExc, spc,
                   tickResult, lastDelivered, lastHandled, userCached>>
    /\ UNCHANGED <<toolVars, factVars, startVars, cmdVars, bothVars>>

\* add_fact(fact)
MemAddFact ==
    /\ \E failure \in WriteFailures :
          /\ failure = "none" => Cardinality(facts) < MaxNewFacts
          /\ LET outcome == AddFactCall(facts, [turn |-> 0, k |-> 1], UtcNow(now), failure)
             IN /\ facts' = outcome.coll
                /\ memResult' = WriteResult(outcome)
                /\ memOp' = [op |-> "add_fact", failure |-> failure]
    /\ UNCHANGED <<platform, now, history, lastProactive, hpc, turn, turnExc, spc,
                   tickResult, lastDelivered, lastHandled, userCached>>
    /\ UNCHANGED <<toolVars, factVars, startVars, cmdVars, bothVars>>

\* get_recent_history(limit)
MemRecentHistory ==
    /\ \E limit \in 1..MaxLimit :
          /\ memOp' = [op |-> "recent", limit |-> limit, relevantLimit |-> 0]
          /\ \E r \in GetRecentHistory(history, limit) :
                memResult' = [recent |-> r, relevant |-> <<>>, value |-> r]
    /\ UNCHANGED <<botVars, toolVars, factVars, startVars, cmdVars, bothVars>>

\* the handler's context assembly: both queries, then the merge.  The relevance
\* query runs with the handler's limit; the recency limit is drawn, so that the
\* relevance result also holds messages the recency result lacks.
MemAssemble ==
    /\ \E limit \in 1..MaxLimit :
          /\ memOp' = [op |-> "assemble", limit |-> limit,
                       relevantLimit |-> RELEVANT_HISTORY_LIMIT]
          /\ \E rel \in GetRelevantHistory(history, RELEVANT_HISTORY_LIMIT),
                rec \in GetRecentHistory(history, limit) :
                memResult' = [recent |-> rec, relevant |-> rel,
                              value |-> CombineHistory(rec, rel)]
    /\ UNCHANGED <<botVars, toolVars, factVars, startVars, cmdVars, bothVars>>

MemInit == BotIdle /\ MemIdle /\ ToolsIdle /\ FactsIdle /\ StartIdle /\ CmdIdle /\ BothIdle

MemNext == MemAddMessage \/ MemAddFact \/ MemRecentHistory \/ MemAssemble

SpecMem == MemInit /\ [][MemNext]_vars

(***************************************************************************)
(* SpecLastUser: memory.py get_last_user_message_time on stores of few and *)
(* of many user messages                                                   *)
(***************************************************************************)
\* how many user messages the store holds: few, or as many as one scroll of
\* get_last_user_message_time returns, or one more
UserCounts ==
    (0..MaxFewUsers) \cup {LAST_USER_SCROLL_LIMIT, LAST_USER_SCROLL_LIMIT + 1}

\* n user messages, one an hour from hour 1 on, as add_message stores them:
\* their payloads differ, so each is the first point of its payload
UserBacklog(n) == {Point(1, "user", <<"text", i>>, UtcNow(i)) : i \in 1..n}

\* when the assistant messages of the store were added: between the user
\* messages, and after the last of them
AssistantInstants ==
    {Instant(0, 1), Instant(1, 1), Instant(LAST_USER_SCROLL_LIMIT, 1),
     Instant(LAST_USER_SCROLL_LIMIT + 2, 0)}

WithAssistantMessages(coll, T) ==
    coll \cup {Point(1, "assistant", <<"text", 0>>, t) : t \in T}

\* get_last_user_message_time()
MemLastUserMessageTime ==
    /\ memOp.op = "none"
    /\ memOp' = [op |-> "last_user_message_time", limit |-> 0, relevantLimit |-> 0]
    /\ \E v \in GetLastUserMessageTime(history) :
          memResult' = [recent |-> <<>>, relevant |-> <<>>, value |-> v]
    /\ UNCHANGED <<botVars, toolVars, factVars, startVars, cmdVars, bothVars>>

\* the hour at which the store is looked at: after its last message, and a
\* threshold after the user message that fills the scroll limit
LastUserClocks ==
    {LAST_USER_SCROLL_LIMIT + 2, LAST_USER_SCROLL_LIMIT + INACTIVITY_THRESHOLD_HOURS}

\* _check_and_send_proactive up to its decision, on this store
MemCheckInactivity ==
    /\ memOp.op = "none"
    /\ memOp' = [op |-> "check_inactivity", limit |-> 0, relevantLimit |-> 0]
    /\ \E v \in GetLastUserMessageTime(history) :
          memResult' = [recent |-> <<>>, relevant |-> <<>>,
                        value |-> CheckInactivity(v, UtcNow(now), lastProactive)]
    /\ UNCHANGED <<botVars, toolVars, factVars, startVars, cmdVars, bothVars>>

LastUserInit ==
    /\ \E n \in UserCounts, T \in SUBSET AssistantInstants :
          history = WithAssistantMessages(UserBacklog(n), T)
    /\ now \in LastUserClocks
    /\ platform = "telegram" /\ facts = {} /\ lastProactive = None
    /\ hpc = "idle" /\ turn = 0 /\ turnExc = "none" /\ spc = "idle"
    /\ tickResult = "none" /\ lastDelivered = None /\ lastHandled = "none"
    /\ userCached = TRUE
    /\ MemIdle /\ ToolsIdle /\ FactsIdle /\ StartIdle /\ CmdIdle /\ BothIdle

LastUserNext == MemLastUserMessageTime \/ MemCheckInactivity

SpecLastUser == LastUserInit /\ [][LastUserNext]_vars

\* the timestamps of the stored user messages
StoredUserInstants == {FromIsoFormat(p.timestamp) : p \in {q \in history : q.role = "user"}}

\* C15: get_last_user_message_time returns the greatest timestamp of all stored
\* user messages, however many there are, and None exactly when no user
\* message is stored; assistant messages do not count.
C15_LastUserMessageTimeIsMaximum ==
    memOp.op = "last_user_message_time" =>
        memResult.value = IF StoredUserInstants = {} THEN None
                          ELSE MaxInstant(StoredUserInstants)

\* C23: a tick decides to send only if a user message is stored and the latest
\* one is at least the 24-hour threshold old; with no user message, or a latest
\* one younger than that, it skips (and so generates, sends and stores nothing).
C23_SendOnlyAfterThresholdOfSilence ==
    (memOp.op = "check_inactivity" /\ memResult.value = "send") =>
        /\ StoredUserInstants # {}
        /\ Ticks(UtcNow(now)) - Ticks(MaxInstant(StoredUserInstants)) >= Threshold

(***************************************************************************)
(* SpecTools: llm.py generate_response and tools/base.py ToolExecutor      *)
(* generate_response is synchronous; its steps are the calls of the        *)
(* completion capability, each with what the loop does with the response   *)
(* up to the next call.                                                    *)
(***************************************************************************)
\* a tool invocation the model asks for: the name, and whether the tool takes
\* the arguments or raises on them
ToolCall(name, accepts) == [name |-> name, accepts |-> accepts]

\* the tool_calls lists a model response may carry (a bound of the model)
RequestedToolCalls ==
    {<<>>,
     <<ToolCall("registered_tool", TRUE)>>,
     <<ToolCall("registered_tool", FALSE)>>,
     <<ToolCall("unregistered_tool", TRUE)>>,
     <<ToolCall("unregistered_tool", TRUE), ToolCall("registered_tool", TRUE)>>}

\* what client.chat returns: response.message.content ("" also for None) and
\* response.message.tool_calls
ChatResponses == [content : {"", "text"}, tool_calls : RequestedToolCalls]

Registry == {"registered_tool"}

ToolText(parts) == [raised |-> FALSE, text |-> parts]
ToolRaised == [raised |-> TRUE, text |-> <<>>]

\* "tool.execute(**arguments)": the tool's text, or the exception of a tool that
\* does not take the arguments (or of calling execute on no tool at all)
RunTool(call) ==
    IF call.name \in Registry /\ call.accepts THEN ToolText(<<"result of ", call.name>>)
    ELSE ToolRaised

\* "except Exception as e: ... return f"Error: {error_msg}""
CatchToolErrorMutant(name, outcome) == outcome
CatchToolError(name, outcome) ==
    IF outcome.raised THEN ToolText(<<"Error: ", "Tool '", name, "' failed: ">>)
    ELSE outcome

\* ToolExecutor.execute(tool_name, arguments): the result text as its parts, or
\* an exception that leaves execute
ExecuteMutant(call) == CatchToolError(call.name, RunTool(call))
Execute(call) ==
    IF call.name \notin Registry THEN ToolText(<<"Error: ", "Unknown tool: ", call.name>>)
    ELSE CatchToolError(call.name, RunTool(call))

\* the assistant message the loop appends for a response that requests tools
AssistantToolMessage(r) ==
    [role |-> "assistant", content |-> r.content,
     tool_calls |-> [i \in 1..Len(r.tool_calls) |-> r.tool_calls[i].name]]

ToolMessage(call) ==
    [role |-> "tool", content |-> Execute(call).text, tool_calls |-> <<>>]

\* the tool messages appended before the first invocation that raises, all of
\* them when none does
ToolMessagesMutant(calls) ==
    [i \in 1..Len(calls) |-> ToolMessage(calls[Len(calls) + 1 - i])]
RECURSIVE ToolMessages(_)
ToolMessages(calls) ==
    IF calls = <<>> \/ Execute(Head(calls)).raised THEN <<>>
    ELSE <<ToolMessage(Head(calls))>> \o ToolMessages(Tail(calls))

\* the histories generate_response is called with (a bound of the model)
Histories ==
    {<<>>,
     <<HistoryEntry("user", "earlier_question", 1),
       HistoryEntry("assistant", "earlier_answer", 2)>>}

Fallback == "I'm having trouble processing that request."

\* the sampling options; the temperature in tenths, top_p in tenths,
\* repeat_penalty in tenths
CHAT_OPTIONS ==
    [temperature |-> 8, top_p |-> 9, top_k |-> 40, repeat_penalty |-> 11]
TOOL_CALL_OPTIONS ==
    [temperature |-> 3, top_p |-> 9, top_k |-> 40, repeat_penalty |-> 11]

\* "options = TOOL_CALL_OPTIONS if iterations == 1 else CHAT_OPTIONS"
LoopOptionsMutant(i) == TOOL_CALL_OPTIONS
LoopOptions(i) == IF i = 1 THEN TOOL_CALL_OPTIONS ELSE CHAT_OPTIONS

\* client.chat(model, messages, tools, options): what the request carries
Request(messages, tools, options) ==
    [messages |-> messages, tools |-> tools, options |-> options]

\* the invocations executed for a response: those up to the first that raises
RECURSIVE Executed(_)
Executed(calls) ==
    IF calls = <<>> THEN <<>>
    ELSE IF Execute(Head(calls)).raised THEN <<Head(calls)>>
    ELSE <<Head(calls)>> \o Executed(Tail(calls))

\* "response.message.content or <fallback>"
ContentOrFallbackMutant(content) == content
ContentOrFallback(content) == IF content # "" THEN content ELSE Fallback

\* "while iterations < MAX_TOOL_ITERATIONS"
LoopContinuesMutant(i) == i <= MAX_TOOL_ITERATIONS
LoopContinues(i) == i < MAX_TOOL_ITERATIONS

Returned(text) == [kind |-> "returned", text |-> text]
Raised == [kind |-> "raised", text |-> ""]

\* generate_response up to its first completion call
GenerateResponse ==
    /\ tpc \in {"idle", "done"}
    /\ \E hist \in Histories :
          /\ genHistory' = hist
          /\ transcript' = FullMessages(SystemPrompt, hist, TriggeringMessage)
    /\ \E tools \in BOOLEAN : tpc' = IF tools THEN "loop" ELSE "simple"
    /\ iterations' = 0
    /\ chatCalls' = 0
    /\ requests' = <<>>
    /\ executions' = <<>>
    /\ lastResponse' = [content |-> "", tool_calls |-> <<>>]
    /\ genResult' = [kind |-> "none", text |-> ""]
    /\ UNCHANGED <<botVars, memVars, factVars, startVars, cmdVars, bothVars>>

\* _generate_simple: one completion call, its content returned
GenerateSimple ==
    /\ tpc = "simple"
    /\ chatCalls' = chatCalls + 1
    /\ \/ /\ genResult' = Raised
          /\ UNCHANGED lastResponse
       \/ \E content \in {"", "text"} :
             /\ lastResponse' = [content |-> content, tool_calls |-> <<>>]
             /\ genResult' = Returned(content)
    /\ tpc' = "done"
    /\ requests' = Append(requests, Request(transcript, FALSE, CHAT_OPTIONS))
    /\ UNCHANGED <<iterations, transcript, genHistory, executions>>
    /\ UNCHANGED <<botVars, memVars, factVars, startVars, cmdVars, bothVars>>

\* one pass of the while loop of _generate_with_tools
LoopIteration ==
    /\ tpc = "loop"
    /\ LoopContinues(iterations)
    /\ iterations' = iterations + 1
    /\ chatCalls' = chatCalls + 1
    /\ requests' = Append(requests, Request(transcript, TRUE, LoopOptions(iterations')))
    /\ \/ \* client.chat raised: generate_response logs and re-raises
          /\ genResult' = Raised
          /\ tpc' = "done"
          /\ UNCHANGED <<lastResponse, transcript, executions>>
       \/ \* tool calls requested: the assistant message, then one result each;
          \* an exception leaving execute leaves the loop and generate_response
          \E r \in ChatResponses :
             /\ r.tool_calls # <<>>
             /\ lastResponse' = r
             /\ transcript' = transcript \o <<AssistantToolMessage(r)>>
                                  \o ToolMessages(r.tool_calls)
             /\ executions' = executions \o Executed(r.tool_calls)
             /\ IF \E i \in 1..Len(r.tool_calls) : Execute(r.tool_calls[i]).raised
                THEN genResult' = Raised /\ tpc' = "done"
                ELSE UNCHANGED <<tpc, genResult>>
       \/ \* no tool calls: the content is the answer
          \E r \in ChatResponses :
             /\ r.tool_calls = <<>>
             /\ lastResponse' = r
             /\ genResult' = Returned(r.content)
             /\ tpc' = "done"
             /\ UNCHANGED <<transcript, executions>>
    /\ UNCHANGED genHistory
    /\ UNCHANGED <<botVars, memVars, factVars, startVars, cmdVars, bothVars>>

\* the loop is left by its condition: the last content, or the fallback text
LoopExhausted ==
    /\ tpc = "loop"
    /\ ~LoopContinues(iterations)
    /\ genResult' = Returned(ContentOrFallback(lastResponse.content))
    /\ tpc' = "done"
    /\ UNCHANGED <<iterations, transcript, chatCalls, lastResponse, genHistory,
                   requests, executions>>
    /\ UNCHANGED <<botVars, memVars, factVars, startVars, cmdVars, bothVars>>

ToolsInit == BotIdle /\ MemIdle /\ ToolsIdle /\ FactsIdle /\ StartIdle /\ CmdIdle /\ BothIdle

ToolsNext == GenerateResponse \/ GenerateSimple \/ LoopIteration \/ LoopExhausted

SpecTools == ToolsInit /\ [][ToolsNext]_vars

(***************************************************************************)
(* Claims about the tool-calling loop (SpecTools)                          *)
(***************************************************************************)
\* C4: one GenerateResponse call invokes the completion capability at most 5
\* times, also when every response requests a tool; there is no sixth call.
C4_AtMostFiveCompletionCalls == chatCalls <= 5

\* C4 witness: five completion calls were made, each response asked for tools,
\* and the call has returned.
C4_FiveCallsAllRequestingTools ==
    /\ tpc = "done"
    /\ genResult.kind = "returned"
    /\ chatCalls = 5
    /\ lastResponse.tool_calls # <<>>
    /\ Cardinality({i \in 1..Len(transcript) : transcript[i].role = "assistant"
                        /\ transcript[i].tool_calls # <<>>}) = 5

\* a step of the loop that received a response asking for tools: it appended
\* to the transcript
ToolRound == tpc = "loop" /\ Len(transcript') > Len(transcript)

C16_RequestIsPromptHistoryUser ==
    tpc \in {"simple", "loop"} =>
        LET n == Len(genHistory)
        IN  /\ Len(transcript) >= n + 2
            /\ transcript[1] = Message("system", SystemPrompt)
            /\ \A i \in 1..n :
                  transcript[i + 1] = Message(genHistory[i].role, genHistory[i].content)
            /\ transcript[n + 2] = Message("user", TriggeringMessage)
            /\ (\A i \in 1..Len(transcript) : transcript[i].role # "tool") =>
                  transcript[Len(transcript)] = Message("user", TriggeringMessage)

\* C16 witness: a request is due after a tool round, for a call with a history
\* of two entries.
C16_RequestAfterToolRoundWithHistory ==
    /\ tpc = "loop"
    /\ chatCalls = 1
    /\ Len(genHistory) = 2
    /\ Len(transcript) > Len(genHistory) + 2
    /\ transcript[2].content = "earlier_question"
    /\ transcript[4].content = TriggeringMessage

\* the invocations of a response for which tool.execute raises: those of a
\* registered tool that does not take the arguments
FailingInvocations(calls) ==
    {i \in 1..Len(calls) : calls[i].name \in Registry /\ ~calls[i].accepts}

\* C17: when the execution of a registered tool raises, as it does for
\* arguments the tool does not take, the tool message appended for it is a text
\* that starts with "Error: ", and the loop goes on: generate_response neither
\* raises nor returns in that step.
C17_ToolExceptionAnsweredInBand ==
    [][ToolRound =>
         LET calls == lastResponse'.tool_calls
             base == Len(transcript) + 1
         IN  \A i \in FailingInvocations(calls) :
                /\ genResult'.kind # "raised"
                /\ tpc' = "loop"
                /\ Len(transcript') = base + Len(calls)
                /\ transcript'[base + i].role = "tool"
                /\ transcript'[base + i].content[1] = "Error: "]_vars

\* C17 witness: the error text of a tool that raised is in the transcript and
\* generate_response has returned an answer after it.
C17_ToolRaisedThenAnswer ==
    /\ genResult.kind = "returned"
    /\ lastResponse.tool_calls = <<>>
    /\ \E i \in 1..Len(transcript) :
          /\ transcript[i].role = "tool"
          /\ transcript[i].content = <<"Error: ", "Tool '", "registered_tool", "' failed: ">>

\* C18: when the loop ends at its bound, every response having asked for
\* tools, generate_response returns the content of the last response, or the
\* fallback text if that content is empty; when a response without tool calls
\* arrives, it returns exactly that response's content.
C18_ReturnedText ==
    (tpc = "done" /\ genResult.kind = "returned") =>
        IF lastResponse.tool_calls # <<>>
        THEN /\ chatCalls = MAX_TOOL_ITERATIONS
             /\ genResult.text = IF lastResponse.content # "" THEN lastResponse.content
                                 ELSE "I'm having trouble processing that request."
        ELSE genResult.text = lastResponse.content

\* C18 witness: the bound was reached with an empty last content, and the
\* fallback text was returned.
C18_FallbackAtBound ==
    /\ tpc = "done"
    /\ iterations = MAX_TOOL_ITERATIONS
    /\ lastResponse.tool_calls # <<>>
    /\ lastResponse.content = ""
    /\ genResult = Returned(Fallback)

\* the message at position i of the transcript was part of a completion request
Presented(i) ==
    \E k \in 1..Len(requests) :
       /\ Len(requests[k].messages) >= i
       /\ requests[k].messages[i] = transcript[i]

\* C21: every tool result appended to the transcript is presented to the model
\* in a later completion call of the same generate_response: once the call has
\* returned, each tool message of the transcript was part of a request.
C21_ToolResultsPresentedToModel ==
    (tpc = "done" /\ genResult.kind = "returned") =>
        \A i \in 1..Len(transcript) : transcript[i].role = "tool" => Presented(i)

\* C22: a response that asks for k >= 1 tools makes the loop append one
\* assistant message naming the k invocations and then k tool messages, the
\* i-th holding the result of the i-th invocation, and execute the k
\* invocations once each in that order; what the transcript held before stays
\* in place, and no other step of the call changes the transcript.
C22_TranscriptShape ==
    [][IF ToolRound
       THEN LET calls == lastResponse'.tool_calls
                k == Len(calls)
                base == Len(transcript) + 1
            IN  /\ k >= 1
                /\ Len(transcript') = base + k
                /\ SubSeq(transcript', 1, Len(transcript)) = transcript
                /\ transcript'[base].role = "assistant"
                /\ transcript'[base].tool_calls = [i \in 1..k |-> calls[i].name]
                /\ \A i \in 1..k :
                      /\ transcript'[base + i].role = "tool"
                      /\ transcript'[base + i].content = Execute(calls[i]).text
                /\ executions' = executions \o calls
       ELSE tpc \in {"simple", "loop"} =>
               (transcript' = transcript /\ executions' = executions)]_vars

\* C22 witness: a response asked for two tools; the transcript ends with the
\* assistant message and the two results in the order asked, earlier rounds
\* before them.
C22_TwoResultsInOrder ==
    /\ Len(lastResponse.tool_calls) = 2
    /\ chatCalls >= 2
    /\ Len(transcript) >= 3
    /\ transcript[Len(transcript) - 2].role = "assistant"
    /\ transcript[Len(transcript) - 2].tool_calls = <<"unregistered_tool", "registered_tool">>
    /\ transcript[Len(transcript) - 1].content[2] = "Unknown tool: "
    /\ transcript[Len(transcript)].content = <<"result of ", "registered_tool">>
    /\ Len(executions) >= 3

\* C28: in the tool-calling loop the first completion call is made with the
\* tool-call options and every later one with the chat options; without
\* tools the one call is made with the chat options; the tool-call options
\* have the lower temperature.
C28_SamplingPolicy ==
    /\ TOOL_CALL_OPTIONS.temperature < CHAT_OPTIONS.temperature
    /\ \A i \in 1..Len(requests) :
          IF requests[i].tools
          THEN requests[i].options = IF i = 1 THEN TOOL_CALL_OPTIONS ELSE CHAT_OPTIONS
          ELSE Len(requests) = 1 /\ requests[i].options = CHAT_OPTIONS

\* C28 witness: a call with tools made three completion calls, the first with
\* the low temperature, the others with the high one.
C28_LowThenHighTemperature ==
    /\ Len(requests) = 3
    /\ requests[1].tools
    /\ requests[1].options.temperature = 3
    /\ requests[2].options.temperature = 8
    /\ requests[3].options.temperature = 8

(***************************************************************************)
(* SpecFacts: llm.py extract_facts                                         *)
(* The response text is a sequence of characters; strip, split and         *)
(* startswith are computed on it as str computes them.                     *)
(***************************************************************************)
Chars == {" ", "\n", "-", "#", "N", "O", "E"}

Texts == UNION {[1..n -> Chars] : n \in 0..MaxResponseLen}

IsSpace(c) == c \in {" ", "\n"}

RECURSIVE LStrip(_)
LStrip(s) == IF s # <<>> /\ IsSpace(Head(s)) THEN LStrip(Tail(s)) ELSE s

RECURSIVE RStrip(_)
RStrip(s) ==
    IF s # <<>> /\ IsSpace(s[Len(s)]) THEN RStrip(SubSeq(s, 1, Len(s) - 1)) ELSE s

\* str.strip()
Strip(s) == RStrip(LStrip(s))

\* str.split("\n"): the pieces between the line breaks, empty ones included
RECURSIVE SplitLines(_)
SplitLines(s) ==
    IF \A i \in 1..Len(s) : s[i] # "\n" THEN <<s>>
    ELSE LET i == CHOOSE k \in 1..Len(s) :
                      s[k] = "\n" /\ \A j \in 1..(k - 1) : s[j] # "\n"
         IN <<SubSeq(s, 1, i - 1)>> \o SplitLines(SubSeq(s, i + 1, Len(s)))

\* str.startswith(prefix)
StartsWith(s, prefix) == Len(s) >= Len(prefix) /\ SubSeq(s, 1, Len(prefix)) = prefix

Sentinel == <<"N", "O", "N", "E">>

\* one pass of "for line in content.split(...)"
ParseLineMutant(found, rawLine) ==
    LET line == Strip(rawLine)
    IN IF StartsWith(line, <<"-", " ">>) THEN Append(found, SubSeq(line, 3, Len(line)))
       ELSE IF line # <<>> THEN Append(found, line)
       ELSE found
ParseLine(found, rawLine) ==
    LET line == Strip(rawLine)
    IN IF StartsWith(line, <<"-", " ">>) THEN Append(found, SubSeq(line, 3, Len(line)))
       ELSE IF line # <<>> /\ ~StartsWith(line, <<"#">>) THEN Append(found, line)
       ELSE found

RECURSIVE ParseLines(_, _)
ParseLines(found, lines) ==
    IF lines = <<>> THEN found
    ELSE ParseLines(ParseLine(found, Head(lines)), Tail(lines))

\* what the model gives extract_facts: the chat call raises, the response has no
\* content (None), or it has a text
FactInputs ==
    {[kind |-> "chat_raises", content |-> <<>>], [kind |-> "no_content", content |-> <<>>]}
        \cup [kind : {"text"}, content : Texts]

\* the try block: what it returns, or that it raised (None has no strip())
TryExtract(input) ==
    IF input.kind # "text" THEN [done |-> TRUE, raised |-> TRUE, facts |-> <<>>]
    ELSE LET content == Strip(input.content)
         IN IF content = Sentinel \/ content = <<>>
            THEN [done |-> TRUE, raised |-> FALSE, facts |-> <<>>]
            ELSE [done |-> TRUE, raised |-> FALSE,
                  facts |-> ParseLines(<<>>, SplitLines(content))]

\* "except Exception as e: ... return []"
CatchAllMutant(outcome) == outcome
CatchAll(outcome) ==
    IF outcome.raised THEN [done |-> TRUE, raised |-> FALSE, facts |-> <<>>]
    ELSE outcome

\* extract_facts(user_message, existing_facts)
ExtractFacts(input) == CatchAll(TryExtract(input))

ExtractFactsCall ==
    /\ factInput.kind # "none"
    /\ ~factOutput.done
    /\ factOutput' = ExtractFacts(factInput)
    /\ UNCHANGED factInput
    /\ UNCHANGED <<botVars, memVars, toolVars, startVars, cmdVars, bothVars>>

FactsInit ==
    /\ BotIdle /\ MemIdle /\ ToolsIdle /\ StartIdle /\ CmdIdle /\ BothIdle
    /\ factInput \in FactInputs
    /\ factOutput = NoFactOutput

FactsNext == ExtractFactsCall

SpecFacts == FactsInit /\ [][FactsNext]_vars

\* the messages a step adds to the chat history
Added == history' \ history

\* C33: storing an assistant message, a check-in or a reply, never changes the
\* time of the last user message: after every step it is what the store before
\* the step and the user messages the step added give.
C33_AssistantMessagesLeaveInactivityClock ==
    [][GetLastUserMessageTime(history') =
           GetLastUserMessageTime(history \cup {p \in Added : p.role = "user"})]_vars

\* a check-in is stored later than the last user message, which is still what
\* the scheduler reads
C33_CheckInStoredClockKept ==
    /\ LatestUser # None
    /\ \E t \in ProactiveTimes : Ticks(t) > Ticks(LatestUser)
    /\ GetLastUserMessageTime(history) = {LatestUser}

\* the handler has returned from a message of the allowed user, or an
\* exception has left it
TurnEnded == hpc = "idle" /\ lastHandled \in {"replied", "apologized", "raised"}

Apology == <<"apology", 0>>

\* the texts the turn that ended has delivered to the user
OutboundTexts ==
    IF lastHandled = "replied" THEN {Response(turn)}
    ELSE IF lastHandled = "apologized" THEN {Apology}
    ELSE {}

\* C35: every message of the allowed user ends with exactly one text delivered
\* to the user, the generated response or the apology, whatever fails.
C35_ExactlyOneOutboundText ==
    TurnEnded => Cardinality(OutboundTexts) = 1

\* C36 as stated: after a turn has ended the store holds both messages of the
\* turn or neither, and it holds the response only if the response is what the
\* user was sent.
C36_TurnPersistedAllOrNothing ==
    TurnEnded =>
        /\ UserMessage(turn) \in StoredContents <=> Response(turn) \in StoredContents
        /\ Response(turn) \in StoredContents => lastHandled = "replied"

\* C36, amended: the two messages are stored in order and nothing is taken
\* back: after a turn has ended the store never holds the response without
\* the user message, and a response that was delivered is stored with its user
\* message.  A user message may stay alone, and a stored response undelivered.
C36_ResponseNeverWithoutUserMessage ==
    TurnEnded =>
        /\ Response(turn) \in StoredContents => UserMessage(turn) \in StoredContents
        /\ lastHandled = "replied" =>
              {UserMessage(turn), Response(turn)} \subseteq StoredContents

\* a turn ended with the apology and its user message stored alone
C36_UserMessageStoredAlone ==
    /\ TurnEnded
    /\ lastHandled = "apologized"
    /\ UserMessage(turn) \in StoredContents
    /\ Response(turn) \notin StoredContents

(***************************************************************************)
(* SpecLive: the running bot with a scheduler that keeps ticking and calls *)
(* that succeed in the end                                                 *)
(* The interval trigger fires the job every hour for as long as the        *)
(* process runs, and an awaited send returns or raises: weak fairness of   *)
(* Tick and of SendDone.  The calls of a tick may fail up to MaxFailHour   *)
(* and succeed from then on.                                               *)
(***************************************************************************)
\* a step in which a call of the tick raises
TickCallFails ==
    \/ now' # now /\ tickResult' = "read_failed"
    \/ now' # now /\ tickResult' = "send" /\ spc' # "sending"
    \/ spc = "sending" /\ spc' # "sending" /\ history' = history

\* the calls succeed in the end
Calm == now' > MaxFailHour => ~TickCallFails

LiveTick == Tick /\ Calm

LiveSendDone == SendDone /\ Calm

LiveNext ==
    \/ \E ev \in InboundEvents(platform) : OnMessage(ev)
    \/ TypingDone
    \/ ReplyDone
    \/ ApologyDone
    \/ LiveTick
    \/ LiveSendDone

SpecLive ==
    Init /\ [][LiveNext]_vars /\ WF_vars(LiveTick) /\ WF_vars(LiveSendDone)

\* the latest user message is at least the threshold old
UserInactive ==
    /\ LatestUser # None
    /\ Ticks(UtcNow(now)) - Ticks(LatestUser) >= Threshold

\* a proactive message was delivered less than the threshold ago
RecentlyDelivered ==
    /\ lastDelivered # None
    /\ Ticks(UtcNow(now)) - Ticks(lastDelivered) < Threshold

\* C37: when the latest user message is at least 24 hours old, the user stays
\* inactive, the scheduler keeps ticking and the calls succeed in the end, a
\* proactive message is delivered: a failed tick is retried by the next one.
C37_InactiveUserGetsCheckIn ==
    [](UserInactive /\ now < MaxTime => <>RecentlyDelivered)

\* the tick at the threshold did not send, the next tick did
C37_RetrySentAfterFailedTick ==
    /\ now = INACTIVITY_THRESHOLD_HOURS + CHECK_INTERVAL_HOURS
    /\ LatestUser = UtcNow(0)
    /\ lastDelivered = UtcNow(now)
    /\ lastProactive = UtcNow(now)
    /\ ProactiveTimes = {UtcNow(now)}

(***************************************************************************)
(* SpecRace: inbound messages handled while a proactive send is awaited    *)
(* The store holds an earlier turn.  "await ....send_message(...)" and     *)
(* "await user.send(message)" give the event loop to the handler, and the  *)
(* hour may pass before the transport returns; the job is not run again    *)
(* while its instance is running.  As in SpecLive, the calls of a tick may *)
(* fail up to MaxFailHour, and up to that hour the transport may be slow.  *)
(***************************************************************************)
RaceInit ==
    /\ platform \in {"telegram", "discord"}
    /\ now = 0
    /\ history = PersistTurn({}, 0, UtcNow(0), 2)
    /\ facts = {}
    /\ lastProactive = None
    /\ hpc = "idle"
    /\ turn = 0
    /\ turnExc = "none"
    /\ spc = "idle"
    /\ tickResult = "none"
    /\ lastDelivered = None
    /\ lastHandled = "none"
    /\ userCached = (platform = "telegram")
    /\ MemIdle /\ ToolsIdle /\ FactsIdle /\ StartIdle /\ CmdIdle /\ BothIdle

\* an inbound event arrives while the send is awaited
OnMessageInSend(ev) == spc = "sending" /\ HandleMessage(ev)

\* the transport takes its time: the hour passes while the send is awaited
SendPending ==
    /\ spc = "sending"
    /\ now < MaxFailHour
    /\ now' = now + CHECK_INTERVAL_HOURS
    /\ UNCHANGED <<platform, history, facts, lastProactive, hpc, turn, turnExc, spc,
                   tickResult, lastDelivered, lastHandled, userCached>>
    /\ UNCHANGED <<memVars, toolVars, factVars, startVars, cmdVars, bothVars>>

RaceNext ==
    \/ \E ev \in InboundEvents(platform) : OnMessageInSend(ev)
    \/ TypingDone
    \/ ReplyDone
    \/ ApologyDone
    \/ LiveTick
    \/ SendPending
    \/ LiveSendDone

SpecRace == RaceInit /\ [][RaceNext]_vars

\* a step of the job from its start
TickStep == now' # now /\ spc # "sending"

\* the latest user message is no earlier than the last noted send
NewInactivityPeriod ==
    /\ LatestUser # None
    /\ lastProactive # None
    /\ Ticks(LatestUser) >= Ticks(lastProactive)

AddedContents == {p.content : p \in Added}

Bindings == {"telegram", "discord"}

CallsMayFail == now <= MaxFailHour

BothInit ==
    /\ platform = "both"
    /\ now = 0
    /\ history = PersistTurn({}, 0, UtcNow(0), 2)
    /\ facts = {}
    /\ lastProactive = None
    /\ hpc = "idle"
    /\ turn = 0
    /\ turnExc = "none"
    /\ spc = "idle"
    /\ tickResult = "none"
    /\ lastDelivered = None
    /\ lastHandled = "none"
    /\ userCached = TRUE
    /\ MemIdle /\ ToolsIdle /\ FactsIdle /\ StartIdle /\ CmdIdle /\ BothIdle

\* the next hour begins once both jobs have run and returned
HourPasses ==
    /\ now < MaxTime
    /\ \A p \in Bindings : schedulers[p].tickedAt = now /\ schedulers[p].pc = "idle"
    /\ now' = now + CHECK_INTERVAL_HOURS
    /\ UNCHANGED <<platform, history, facts, lastProactive, hpc, turn, turnExc, spc,
                   tickResult, lastDelivered, lastHandled, userCached>>
    /\ UNCHANGED <<memVars, toolVars, factVars, startVars, cmdVars, bothVars>>

\* _check_and_send_proactive of the scheduler of binding p, up to its await:
\* the decision reads the shared collection and the scheduler's own field
BothTick(p) ==
    /\ schedulers[p].pc = "idle"
    /\ schedulers[p].tickedAt < now
    /\ \/ \* a call raised (caught, logged), or the decision is to skip
          /\ \/ CallsMayFail
             \/ \E lastUser \in GetLastUserMessageTime(history) :
                   CheckInactivity(lastUser, UtcNow(now), schedulers[p].last) # "send"
          /\ schedulers' = [schedulers EXCEPT ![p].tickedAt = now]
       \/ \* the message is generated and the send is awaited
          /\ \E lastUser \in GetLastUserMessageTime(history) :
                CheckInactivity(lastUser, UtcNow(now), schedulers[p].last) = "send"
          /\ schedulers' = [schedulers EXCEPT ![p].tickedAt = now, ![p].pc = "sending"]
    /\ UNCHANGED <<deliveries, botVars>>
    /\ UNCHANGED <<memVars, toolVars, factVars, startVars, cmdVars>>

\* send_proactive_message of binding p after its await, then the end of
\* _send_proactive_message
BothSendDone(p) ==
    /\ schedulers[p].pc = "sending"
    /\ \/ \* the send raised: return False
          /\ CallsMayFail
          /\ schedulers' = [schedulers EXCEPT
                ![p].pc = "idle",
                ![p].last = NoteSendTime(FALSE, UtcNow(now), schedulers[p].last)]
          /\ UNCHANGED <<history, deliveries>>
       \/ \* delivered, but add_message raised: return False
          /\ CallsMayFail
          /\ deliveries' = deliveries \cup {[binding |-> p, at |-> UtcNow(now)]}
          /\ schedulers' = [schedulers EXCEPT
                ![p].pc = "idle",
                ![p].last = NoteSendTime(FALSE, UtcNow(now), schedulers[p].last)]
          /\ UNCHANGED history
       \/ \* delivered and stored: return True, the scheduler notes the time
          /\ deliveries' = deliveries \cup {[binding |-> p, at |-> UtcNow(now)]}
          /\ history' = AddMessage(history, "assistant", ProactiveMessage, UtcNow(now))
          /\ schedulers' = [schedulers EXCEPT
                ![p].pc = "idle",
                ![p].last = NoteSendTime(TRUE, UtcNow(now), schedulers[p].last)]
    /\ UNCHANGED <<platform, now, facts, lastProactive, hpc, turn, turnExc, spc,
                   tickResult, lastDelivered, lastHandled, userCached>>
    /\ UNCHANGED <<memVars, toolVars, factVars, startVars, cmdVars>>

BothNext ==
    \/ HourPasses
    \/ \E p \in Bindings : BothTick(p)
    \/ \E p \in Bindings : BothSendDone(p)

SpecBoth == BothInit /\ [][BothNext]_vars

\* C40: with both bindings configured, the two schedulers together deliver at
\* most one proactive message per 24-hour window: any two deliveries, of the
\* same binding or of the two, are at least 24 hours apart.
C40_OneCheckInPerWindowAcrossBindings ==
    \A d, e \in deliveries :
        d # e => (\/ Ticks(d.at) - Ticks(e.at) >= Threshold
                  \/ Ticks(e.at) - Ticks(d.at) >= Threshold)

\* the two schedulers keep fields of their own: one has noted a send, the
\* other has not
SeparateFields ==
    \E p, q \in Bindings : schedulers[p].last # None /\ schedulers[q].last = None

(***************************************************************************)
(* SpecTurn: the message handler on a store that holds an earlier turn     *)
(***************************************************************************)
\* what an earlier turn of the same hour left in the store: nothing, its user
\* message, or both its messages
EarlierTurns == {PersistTurn({}, 0, UtcNow(0), k) : k \in 0..2}

TurnInit ==
    /\ platform \in {"telegram", "discord"}
    /\ now = 0
    /\ history \in EarlierTurns
    /\ facts = {}
    /\ lastProactive = None
    /\ hpc = "idle"
    /\ turn = 0
    /\ turnExc = "none"
    /\ spc = "idle"
    /\ tickResult = "none"
    /\ lastDelivered = None
    /\ lastHandled = "none"
    /\ userCached = (platform = "telegram")
    /\ MemIdle /\ ToolsIdle /\ FactsIdle /\ StartIdle /\ CmdIdle /\ BothIdle

TurnNext ==
    \/ \E ev \in InboundEvents(platform) : OnMessage(ev)
    \/ TypingDone
    \/ ReplyDone
    \/ ApologyDone

SpecTurn == TurnInit /\ [][TurnNext]_vars

\* where in a message list the user message of turn n stands
Occurrences(msgs, n) ==
    {i \in 1..Len(msgs) : msgs[i].role = "user" /\ msgs[i].content = UserMessage(n)}

\* C34: in the prompt of a turn the triggering user message occurs exactly
\* once, as the last message: the history assembled for the turn does not hold
\* it.
C34_TriggeringMessageOnceInPrompt ==
    [][transcript' # transcript =>
          /\ Occurrences(transcript', turn) = {Len(transcript')}
          /\ Occurrences(genHistory', turn) = {}]_vars

\* the turn's messages are stored, and the prompt it was answered from holds
\* the earlier turn and then the triggering message
C34_PromptWithEarlierTurn ==
    /\ hpc = "replying"
    /\ \E p \in history : p.role = "user" /\ p.content = UserMessage(turn)
    /\ Len(genHistory) = 2
    /\ Len(transcript) = 4
    /\ Occurrences(transcript, turn) = {4}

(***************************************************************************)
(* Claims about fact extraction (SpecFacts)                                *)
(***************************************************************************)
\* C10: ExtractFacts never raises to its caller, and it returns the empty
\* sequence when the model's response is exactly "NONE", when it is empty, and
\* when the backend fails.
C10_NoFactsOnSentinelEmptyOrFailure ==
    factOutput.done =>
        /\ ~factOutput.raised
        /\ (\/ factInput.kind \in {"chat_raises", "no_content"}
            \/ factInput.content = <<"N", "O", "N", "E">>
            \/ factInput.content = <<>>) => factOutput.facts = <<>>

\* C10 witness: the backend failed and the call returned the empty sequence.
C10_BackendFailureGivesNoFacts ==
    /\ factOutput.done
    /\ factInput.kind = "chat_raises"
    /\ factOutput.facts = <<>>
    /\ ~factOutput.raised

\* the lines of a response that is parsed: content.strip().split("\n")
ResponseLines == SplitLines(Strip(factInput.content))

Marked(line) == StartsWith(Strip(line), <<"-", " ">>)
Blank(line) == Strip(line) = <<>>
Heading(line) == StartsWith(Strip(line), <<"#">>)

\* the fact a line stands for: the trimmed line, without its marker if it has one
FactOf(line) ==
    IF Marked(line) THEN SubSeq(Strip(line), 3, Len(Strip(line))) ELSE Strip(line)

\* the response is parsed: it is a text that is neither empty nor the sentinel
Parsed ==
    /\ factOutput.done
    /\ factInput.kind = "text"
    /\ Strip(factInput.content) \notin {<<>>, Sentinel}

\* C32 as stated: of a response that is neither empty nor the sentinel, every
\* line with the marker "- " yields a fact with the marker stripped, every other
\* non-empty line yields itself, empty lines yield nothing, in line order.
C32_EveryNonEmptyLineIsAFact ==
    Parsed =>
        LET NonBlank(line) == ~Blank(line)
            kept == SelectSeq(ResponseLines, NonBlank)
        IN /\ Len(factOutput.facts) = Len(kept)
           /\ \A i \in 1..Len(kept) : factOutput.facts[i] = FactOf(kept[i])

\* C32, amended: each line is trimmed; a line with the marker "- " yields a
\* fact with the marker stripped, every other non-empty line that does not
\* start with "#" yields itself, empty lines and lines starting with "#" yield
\* nothing, in line order.
C32_LinesParsedInOrder ==
    Parsed =>
        LET Accepted(line) == Marked(line) \/ (~Blank(line) /\ ~Heading(line))
            kept == SelectSeq(ResponseLines, Accepted)
        IN /\ Len(factOutput.facts) = Len(kept)
           /\ \A i \in 1..Len(kept) : factOutput.facts[i] = FactOf(kept[i])

\* a response of a "#" line and a marked line: one fact, the marker stripped
C32_HeadingSkippedMarkerStripped ==
    /\ factOutput.done
    /\ factInput.kind = "text"
    /\ factInput.content = <<"#", "\n", "-", " ", "O">>
    /\ factOutput.facts = << <<"O">> >>

(***************************************************************************)
(* Claims about the memory store and the history merge (SpecMem)           *)
(***************************************************************************)
\* the instant an ISO text stands for, as a number of clock instants
Chrono(ts) == Ticks(FromIsoFormat(ts))

RoleTime(m) == <<m.role, m.timestamp>>

DistinctTimestamps(coll) == \A p, q \in coll : p # q => p.timestamp # q.timestamp

\* C8: RecentHistory(limit) returns exactly min(limit, totalMessages) entries, in
\* strictly ascending timestamp order, and they are the most recently added
\* messages: no stored message that is left out is newer than a returned one.
\* Stated for stores whose timestamps are pairwise distinct, where "strictly" and
\* "most recent" are unambiguous.
C8_RecentHistoryIsMostRecent ==
    (memOp.op = "recent" /\ DistinctTimestamps(history)) =>
        LET r == memResult.value
        IN /\ Len(r) = Min(memOp.limit, Cardinality(history))
           /\ \A i, j \in 1..Len(r) :
                 i < j => Chrono(r[i].timestamp) < Chrono(r[j].timestamp)
           /\ \A p \in history :
                 (\A i \in 1..Len(r) : r[i] # Payload(p)) =>
                     \A i \in 1..Len(r) : Chrono(p.timestamp) < Chrono(r[i].timestamp)

\* C9: no (role, timestamp) pair occurs twice in the merged history, also when
\* the recent-history and the relevant-history result both hold that pair.
C9_MergedKeysUnique ==
    memOp.op = "assemble" =>
        \A i, j \in 1..Len(memResult.value) :
            i # j => RoleTime(memResult.value[i]) # RoleTime(memResult.value[j])

\* C9 witness: a merge whose two inputs share a pair, which the output holds once,
\* while the relevance result also brought a message the recency result lacked.
C9_SharedPairMergedOnce ==
    /\ memOp.op = "assemble"
    /\ \E i \in 1..Len(memResult.recent), j \in 1..Len(memResult.relevant) :
          /\ RoleTime(memResult.recent[i]) = RoleTime(memResult.relevant[j])
          /\ Cardinality({k \in 1..Len(memResult.value) :
                 RoleTime(memResult.value[k]) = RoleTime(memResult.recent[i])}) = 1
    /\ Len(memResult.value) > Len(memResult.recent)


\* the (role, timestamp) keys of a list of messages
Keys(msgs) == {RoleTime(msgs[i]) : i \in 1..Len(msgs)}

\* the entries of a list of messages
Entries(msgs) == {msgs[i] : i \in 1..Len(msgs)}

EmbedFailsInWrite ==
    /\ memOp'.op \in {"add_message", "add_fact"}
    /\ memOp'.failure = "embed"

\* C31: when the embedding call fails, add_message and add_fact raise to their
\* caller and the store holds the same messages and facts as before the call.
C31_FailedEmbedLeavesStore ==
    [][EmbedFailsInWrite =>
          (memResult'.value = <<"raised">> /\ UNCHANGED <<history, facts>>)]_vars

\* a store that holds a message and a fact, after an add_message in which
\* embed raised
C31_EmbedRaisedOnStore ==
    /\ memOp = [op |-> "add_message", failure |-> "embed"]
    /\ memResult.value = <<"raised">>
    /\ history # {}
    /\ facts # {}

(***************************************************************************)
(* SpecStartup: main.py, create_bot (bot.py), create_discord_bot            *)
(* (discord_bot.py)                                                        *)
(* main() creates one task per configured platform and gathers them; the   *)
(* tasks run on one event loop, each up to its next await.                 *)
(***************************************************************************)
\* what the environment may hold.  An empty value counts as unset (os.getenv
\* gives a falsy string); a token is taken as it is and proves valid or not
\* when the platform is contacted; shared stands for the settings both
\* platforms read while the bot is constructed: "value_error" is one whose
\* reading raises ValueError (QDRANT_PORT not an integer), "other_error" one
\* whose reading raises another exception (the character file not found)
Environments ==
    [telegramToken : {"unset", "invalid", "valid"},
     telegramUserId : {"unset", "not_integer", "integer"},
     discordToken : {"unset", "invalid", "valid"},
     discordUserId : {"unset", "not_integer", "integer"},
     shared : {"ok", "value_error", "other_error"}]

\* main(): "telegram_configured = bool(os.getenv("TELEGRAM_BOT_TOKEN"))"
TelegramConfigured(e) == e.telegramToken # "unset"

\* main(): "discord_configured = bool(token and user id)"
DiscordConfigured(e) == e.discordToken # "unset" /\ e.discordUserId # "unset"

\* character, tool registry, llm client and memory manager are constructed
ConstructShared(e) ==
    IF e.shared = "value_error" THEN "ValueError"
    ELSE IF e.shared = "other_error" THEN "Exception"
    ELSE "bot"

\* create_bot(): the bot, or the exception it raises
CreateBotMutant(e) ==
    IF e.telegramToken = "unset" THEN "ValueError" ELSE ConstructShared(e)
CreateBot(e) ==
    IF e.telegramToken = "unset" THEN "ValueError"
    ELSE IF e.telegramUserId = "unset" THEN "ValueError"
    ELSE IF e.telegramUserId = "not_integer" THEN "ValueError"
    ELSE ConstructShared(e)

\* create_discord_bot(): the bot, None, or the exception it raises
CreateDiscordBot(e) ==
    IF e.discordToken = "unset" THEN "None"
    ELSE IF e.discordUserId = "unset" THEN "None"
    ELSE IF e.discordUserId = "not_integer" THEN "ValueError"
    ELSE ConstructShared(e)

\* a task that has not ended
Running(task) == task \in {"created", "initializing", "connecting", "serving",
                           "scheduler_only"}

\* a task that an exception has left: "crashed" before its try block was
\* entered, "shutdown_failed" out of its finally block
Failed(task) == task \in {"crashed", "shutdown_failed"}

\* ProactiveScheduler.stop(): scheduler.shutdown(wait=False).  It ends the
\* timer and does not wait for a running job; on a scheduler that was never
\* started, shutdown raises (SchedulerNotRunningError) and nothing changes.
Stop(state) == IF state = "running" THEN "shut_down" ELSE "raised"

\* the scheduler after stop(): the state it is left in
AfterStop(state) == IF Stop(state) = "raised" THEN state ELSE Stop(state)

\* main() up to "await asyncio.gather(*tasks)", or sys.exit(1)
Main ==
    /\ mainPc = "start"
    /\ IF ~TelegramConfigured(env) /\ ~DiscordConfigured(env)
       THEN /\ mainPc' = "exited"
            /\ UNCHANGED <<telegramTask, discordTask>>
       ELSE /\ mainPc' = "gathering"
            /\ telegramTask' = IF TelegramConfigured(env) THEN "created" ELSE "none"
            /\ discordTask' = IF DiscordConfigured(env) THEN "created" ELSE "none"
    /\ UNCHANGED <<env, stopEvent, scheduler, tickJob>>
    /\ UNCHANGED <<botVars, memVars, toolVars, factVars, cmdVars, bothVars>>

\* signal_handler: SIGINT or SIGTERM sets stop_event
SignalHandler ==
    /\ mainPc = "gathering"
    /\ ~stopEvent
    /\ stopEvent' = TRUE
    /\ UNCHANGED <<env, mainPc, telegramTask, discordTask, scheduler, tickJob>>
    /\ UNCHANGED <<botVars, memVars, toolVars, factVars, cmdVars, bothVars>>

\* run_telegram_bot up to "await application.initialize()": a ValueError of
\* create_bot is logged and the task returns, another exception leaves the
\* task; otherwise the ProactiveScheduler is constructed, not started
RunTelegramBot ==
    /\ mainPc = "gathering"
    /\ telegramTask = "created"
    /\ telegramTask' = CASE CreateBot(env) = "ValueError" -> "returned"
                         [] CreateBot(env) = "Exception" -> "crashed"
                         [] OTHER -> "initializing"
    /\ scheduler' = IF CreateBot(env) = "bot"
                    THEN [scheduler EXCEPT !["telegram"] = "created"]
                    ELSE scheduler
    /\ UNCHANGED <<env, mainPc, discordTask, stopEvent, tickJob>>
    /\ UNCHANGED <<botVars, memVars, toolVars, factVars, cmdVars, bothVars>>

\* initialize, fetch_user_name, scheduler.start, start, start_polling.
\* Either the bot is polling and waits for stop_event; or initialize raised
\* (as it does for a token the platform rejects), the exception was logged and
\* the finally block called scheduler.stop() on the scheduler not yet started;
\* or start / start_polling raised after scheduler.start() and the finally
\* block ran with the scheduler running.  The job's first run is one interval
\* after scheduler.start(), so no tick is on its way in between.
TelegramStarted ==
    /\ mainPc = "gathering"
    /\ telegramTask = "initializing"
    /\ \/ /\ env.telegramToken = "valid"
          /\ telegramTask' = "serving"
          /\ scheduler' = [scheduler EXCEPT !["telegram"] = "running"]
       \/ /\ telegramTask' = IF Stop(scheduler["telegram"]) = "raised"
                             THEN "shutdown_failed" ELSE "returned"
          /\ scheduler' = [scheduler EXCEPT !["telegram"] = AfterStop(@)]
       \/ /\ telegramTask' = "returned"
          /\ scheduler' = [scheduler EXCEPT !["telegram"] = AfterStop("running")]
    /\ UNCHANGED <<env, mainPc, discordTask, stopEvent, tickJob>>
    /\ UNCHANGED <<botVars, memVars, toolVars, factVars, cmdVars, bothVars>>

\* stop_event.wait() returns in run_telegram_bot: the finally block stops the
\* scheduler, the updater and the application
TelegramStopped ==
    /\ mainPc = "gathering"
    /\ telegramTask = "serving"
    /\ stopEvent
    /\ telegramTask' = IF Stop(scheduler["telegram"]) = "raised"
                       THEN "shutdown_failed" ELSE "returned"
    /\ scheduler' = [scheduler EXCEPT !["telegram"] = AfterStop(@)]
    /\ UNCHANGED <<env, mainPc, discordTask, stopEvent, tickJob>>
    /\ UNCHANGED <<botVars, memVars, toolVars, factVars, cmdVars, bothVars>>

\* run_discord_bot up to "await asyncio.sleep(2)": None ends the task, an
\* exception of create_discord_bot leaves it (nothing catches it).  The task
\* was created after the telegram task and runs its first step after it.
RunDiscordBot ==
    /\ mainPc = "gathering"
    /\ discordTask = "created"
    /\ telegramTask # "created"
    /\ discordTask' = CASE CreateDiscordBot(env) = "None" -> "returned"
                        [] CreateDiscordBot(env) \in {"ValueError", "Exception"} -> "crashed"
                        [] OTHER -> "connecting"
    /\ scheduler' = IF CreateDiscordBot(env) = "bot"
                    THEN [scheduler EXCEPT !["discord"] = "created"]
                    ELSE scheduler
    /\ UNCHANGED <<env, mainPc, telegramTask, stopEvent, tickJob>>
    /\ UNCHANGED <<botVars, memVars, toolVars, factVars, cmdVars, bothVars>>

\* bot.start() runs in its own task: it logs in and serves, or fails (as it
\* does for a token the platform rejects) without run_discord_bot noticing,
\* which starts the scheduler all the same
DiscordStarted ==
    /\ mainPc = "gathering"
    /\ discordTask = "connecting"
    /\ \/ env.discordToken = "valid" /\ discordTask' = "serving"
       \/ discordTask' = "scheduler_only"
    /\ scheduler' = [scheduler EXCEPT !["discord"] = "running"]
    /\ UNCHANGED <<env, mainPc, telegramTask, stopEvent, tickJob>>
    /\ UNCHANGED <<botVars, memVars, toolVars, factVars, cmdVars, bothVars>>

\* stop_event.wait() returns in run_discord_bot: bot_task is cancelled and
\* awaited (an exception it ended with is logged), the finally block stops the
\* scheduler and closes the bot
DiscordStopped ==
    /\ mainPc = "gathering"
    /\ discordTask \in {"serving", "scheduler_only"}
    /\ stopEvent
    /\ discordTask' = IF Stop(scheduler["discord"]) = "raised"
                      THEN "shutdown_failed" ELSE "returned"
    /\ scheduler' = [scheduler EXCEPT !["discord"] = AfterStop(@)]
    /\ UNCHANGED <<env, mainPc, telegramTask, stopEvent, tickJob>>
    /\ UNCHANGED <<botVars, memVars, toolVars, factVars, cmdVars, bothVars>>

\* the interval has passed: a running scheduler starts its job, unless the
\* job's last run is still on its way (max_instances is 1)
SchedulerFires(p) ==
    /\ mainPc = "gathering"
    /\ scheduler[p] = "running"
    /\ tickJob[p] = "none"
    /\ tickJob' = [tickJob EXCEPT ![p] = "in_flight"]
    /\ UNCHANGED <<env, mainPc, telegramTask, discordTask, stopEvent, scheduler>>
    /\ UNCHANGED <<botVars, memVars, toolVars, factVars, cmdVars, bothVars>>

\* _check_and_send_proactive returns, or is cancelled with the event loop
TickEnds(p) ==
    /\ tickJob[p] = "in_flight"
    /\ tickJob' = [tickJob EXCEPT ![p] = "none"]
    /\ UNCHANGED <<env, mainPc, telegramTask, discordTask, stopEvent, scheduler>>
    /\ UNCHANGED <<botVars, memVars, toolVars, factVars, cmdVars, bothVars>>

\* a task ended with an exception: gather raises it in main(), asyncio.run
\* cancels the tasks still running, whose finally blocks run on the
\* CancelledError, and the process ends
MainAborts ==
    /\ mainPc = "gathering"
    /\ Failed(telegramTask) \/ Failed(discordTask)
    /\ mainPc' = "crashed"
    /\ telegramTask' = IF Running(telegramTask) THEN "cancelled" ELSE telegramTask
    /\ discordTask' = IF Running(discordTask) THEN "cancelled" ELSE discordTask
    /\ scheduler' = [p \in {"telegram", "discord"} |-> AfterStop(scheduler[p])]
    /\ UNCHANGED <<env, stopEvent, tickJob>>
    /\ UNCHANGED <<botVars, memVars, toolVars, factVars, cmdVars, bothVars>>

\* every task has returned: "All bots stopped."
MainReturns ==
    /\ mainPc = "gathering"
    /\ telegramTask \in {"none", "returned"}
    /\ discordTask \in {"none", "returned"}
    /\ mainPc' = "returned"
    /\ UNCHANGED <<env, telegramTask, discordTask, stopEvent, scheduler, tickJob>>
    /\ UNCHANGED <<botVars, memVars, toolVars, factVars, cmdVars, bothVars>>

StartupInit ==
    /\ BotIdle /\ MemIdle /\ ToolsIdle /\ FactsIdle /\ CmdIdle /\ BothIdle
    /\ env \in Environments
    /\ mainPc = "start"
    /\ telegramTask = "none"
    /\ discordTask = "none"
    /\ NoShutdown

StartupNext ==
    \/ Main
    \/ SignalHandler
    \/ RunTelegramBot
    \/ TelegramStarted
    \/ TelegramStopped
    \/ RunDiscordBot
    \/ DiscordStarted
    \/ DiscordStopped
    \/ \E p \in {"telegram", "discord"} : SchedulerFires(p)
    \/ \E p \in {"telegram", "discord"} : TickEnds(p)
    \/ MainAborts
    \/ MainReturns

SpecStartup == StartupInit /\ [][StartupNext]_vars

\* a platform is configured (its token is set) and a required setting of it is
\* missing or invalid
TelegramMisconfigured ==
    /\ env.telegramToken # "unset"
    /\ \/ env.telegramToken = "invalid"
       \/ env.telegramUserId # "integer"
       \/ env.shared # "ok"

DiscordMisconfigured ==
    /\ env.discordToken # "unset"
    /\ \/ env.discordToken = "invalid"
       \/ env.discordUserId # "integer"
       \/ env.shared # "ok"

\* C20 as stated: when a required setting of a configured platform is missing
\* or invalid, the process serves no platform at all.
C20_ConfigErrorStopsEveryPlatform ==
    (TelegramMisconfigured \/ DiscordMisconfigured) =>
        (telegramTask # "serving" /\ discordTask # "serving")

\* C20 as amended: a platform of which a required setting is missing or
\* invalid is never served; the other platform, if its settings are in order,
\* may be.
C20_MisconfiguredPlatformNeverServes ==
    /\ TelegramMisconfigured => telegramTask # "serving"
    /\ DiscordMisconfigured => discordTask # "serving"

\* C20 witness: the telegram token is set but the user id is not an integer:
\* run_telegram_bot has returned on the ValueError, and discord is served.
C20_TelegramSkippedDiscordServed ==
    /\ env.telegramToken = "valid"
    /\ env.telegramUserId = "not_integer"
    /\ telegramTask = "returned"
    /\ discordTask = "serving"

\* the task that runs a platform
Task(p) == IF p = "telegram" THEN telegramTask ELSE discordTask

\* a step in which a platform's task runs its finally block
ShutdownStep(p) ==
    /\ Task(p) \in {"initializing", "connecting", "serving", "scheduler_only"}
    /\ Task(p)' \in {"returned", "shutdown_failed", "cancelled"}

\* C30: a task's shutdown path stops its scheduler whether or not a tick is on
\* its way, a stopped scheduler starts no tick, and the shutdown path runs to
\* its end on every run: no exception leaves it, also when startup failed
\* before the scheduler was started.
C30_ShutdownStopsSchedulerAndCompletes ==
    [][\A p \in {"telegram", "discord"} :
          /\ (ShutdownStep(p) /\ scheduler[p] = "running") =>
                 (scheduler'[p] = "shut_down" /\ tickJob'[p] = tickJob[p])
          /\ (scheduler[p] = "shut_down" /\ tickJob[p] = "none") =>
                 tickJob'[p] = "none"
          /\ ShutdownStep(p) =>
                 (Task(p)' # "shutdown_failed" /\ scheduler'[p] = "shut_down")]_vars

\* the part of C30 the code keeps: a running scheduler is stopped by its
\* task's shutdown path whether or not a tick is on its way, and a stopped
\* scheduler starts no tick
SchedulerStoppedForGood ==
    [][\A p \in {"telegram", "discord"} :
          /\ (ShutdownStep(p) /\ scheduler[p] = "running") =>
                 (scheduler'[p] = "shut_down" /\ tickJob'[p] = tickJob[p])
          /\ (scheduler[p] = "shut_down" /\ tickJob[p] = "none") =>
                 tickJob'[p] = "none"]_vars

(***************************************************************************)
(* bot.py / discord_bot.py: the command handlers                           *)
(* /start, /help, /facts and /forget are CommandHandlers of the telegram   *)
(* application; help, facts and forget are slash commands of the discord   *)
(* command tree, which has no start command.  A handler runs without a     *)
(* break up to the one await it has, the sending of its text.              *)
(***************************************************************************)
Commands(p) ==
    IF p = "telegram" THEN {"start", "help", "facts", "forget"}
    ELSE {"help", "facts", "forget"}

\* who a command comes from: update.effective_user may be missing, while
\* interaction.user always is a user
CommandSenders(p) ==
    IF p = "telegram" THEN {AllowedUserId, "stranger", "nobody"}
    ELSE {AllowedUserId, "stranger"}

CommandEvents(p) == [name : Commands(p), sender : CommandSenders(p)]

\* the guard every command handler opens with
RejectsCommandMutant(name, sender) ==
    name # "facts" /\ (sender = "nobody" \/ ~IsAllowedUser(sender))
RejectsCommand(name, sender) ==
    sender = "nobody" \/ ~IsAllowedUser(sender)

\* what a handler does with a rejected command: the telegram handlers return
\* (start_command logs first), the slash commands answer the sender with
\* "You are not authorized to use this bot.", ephemeral
RejectionText(p) == IF p = "telegram" THEN "none" ELSE "not_authorized"

\* the text a handler sends the allowed user; listed is get_all_facts()
CommandText(name, listed) ==
    IF name = "start" THEN "greeting"
    ELSE IF name = "help" THEN "help"
    ELSE IF name = "forget" THEN "forget_not_implemented"
    ELSE IF listed = {} THEN "no_facts_yet"
    ELSE "facts_list"

Awaited(text) ==
    IF text = "none" THEN NoReply ELSE [text |-> text, state |-> "awaited"]

\* a command handler up to its await; get_all_facts may raise, and then the
\* exception leaves facts_command with nothing sent
OnCommand(ev) ==
    /\ cmdReply.state # "awaited"
    /\ command' = ev
    /\ IF RejectsCommand(ev.name, ev.sender)
       THEN /\ cmdRead' = FALSE
            /\ cmdReply' = Awaited(RejectionText(platform))
       ELSE /\ cmdRead' = (ev.name = "facts")
            /\ \/ cmdReply' = Awaited(CommandText(ev.name, {p.fact : p \in facts}))
               \/ /\ ev.name = "facts"
                  /\ cmdReply' = NoReply
    /\ UNCHANGED <<botVars, memVars, toolVars, factVars, startVars, bothVars>>

\* reply_text / interaction.response.send_message returns or raises
CommandReplyDone ==
    /\ cmdReply.state = "awaited"
    /\ \E fate \in {"delivered", "raised"} :
           cmdReply' = [cmdReply EXCEPT !.state = fate]
    /\ UNCHANGED <<command, cmdRead>>
    /\ UNCHANGED <<botVars, memVars, toolVars, factVars, startVars, bothVars>>

\* the fact stores a command may find
RECURSIVE KnownFacts(_)
KnownFacts(n) ==
    IF n = 0 THEN {}
    ELSE AddFact(KnownFacts(n - 1), [turn |-> n, k |-> 1], UtcNow(0))

CommandsInit ==
    /\ platform \in {"telegram", "discord"}
    /\ now = 0
    /\ history = {}
    /\ facts \in {KnownFacts(n) : n \in 0..MaxKnownFacts}
    /\ lastProactive = None
    /\ hpc = "idle"
    /\ turn = 0
    /\ turnExc = "none"
    /\ spc = "idle"
    /\ tickResult = "none"
    /\ lastDelivered = None
    /\ lastHandled = "none"
    /\ userCached = (platform = "telegram")
    /\ MemIdle /\ ToolsIdle /\ FactsIdle /\ StartIdle /\ CmdIdle /\ BothIdle

CommandsNext ==
    \/ \E ev \in CommandEvents(platform) : OnCommand(ev)
    \/ CommandReplyDone

SpecCommands == CommandsInit /\ [][CommandsNext]_vars

(***************************************************************************)
(* Claims about the command handlers (SpecCommands)                        *)
(***************************************************************************)
FromStranger == command # NoCommand /\ command.sender # AllowedUserId

====
